---- MODULE Spec2Model ----
(***************************************************************************)
(* Model of the model-status cache, the retry controller and the           *)
(* chat.params validation hook of the llama.cpp plugin.                    *)
(*                                                                         *)
(* Time is in milliseconds.  A model list is a JavaScript array: an object *)
(* on the heap, reached through a reference, so that two holders of the    *)
(* same reference see each other's mutations.                              *)
(***************************************************************************)
EXTENDS Integers, Sequences, FiniteSets, TLC

VARIABLES
    now,          \* Date.now()
    cache,        \* ModelStatusCache.cache: Map<baseURL, {models, timestamp, ttl}>
    heap,         \* the arrays reachable from the cache and from callers
    calls,        \* the getModels calls: each caller's position and locals
    win,          \* history: per baseURL, the last successful fetch (t, ttl)
    lastCleanup,  \* history: the cleanup pass the last step ran, if any
    rt,           \* the running retryWithBackoff call: its locals and its position
    hk,           \* the running chat.params hook call: its locals and its position
    server,       \* the inference server: how it answers GET /v1/models
    fn,           \* the last call of a pure function: its name, arguments and result
    ad,           \* the running autoDetectLlamaCpp call and the ports it probes
    toasts,       \* history: how client.tui.showToast answered the running hook call
    cf,           \* the running enhanceConfig call and the config object it was given
    mon,          \* ModelLoadingMonitor: loadingStates, pollingIntervals and the timers
    stats,        \* the last two results of getStats() and what was refreshed since
    inval,        \* history: per call, the invalidation that happened while it awaited
    race          \* the running config hook call: its race timer and the await in flight

vars == <<now, cache, heap, calls, win, lastCleanup, rt, hk, server, fn, ad, toasts, cf, mon, stats, inval, race>>
auxVars == <<fn, ad, toasts, cf, mon, stats, inval, race>>
pureVars == <<fn, ad, cf, mon, stats, inval, race>>
cacheVars == <<cache, heap, calls, win, lastCleanup>>

----------------------------------------------------------------------------
(* Bounds of the model *)

NumURLs == 1          \* base URLs the callers ask for
MaxCalls == 2         \* getModels calls that may be in flight together
MaxTime == 90000      \* the clock stops here
MaxRetriesBound == 3  \* the largest maxRetries a caller passes
MaxRequests == 2      \* chat.params calls in one behaviour
MaxConfigCalls == 1   \* calls of the config hook in one behaviour
MaxDetects == 1       \* calls of autoDetectLlamaCpp in one behaviour
MaxLiveRequests == 1  \* chat.params calls followed to their end under fairness

(* Program constants *)

DEFAULT_TTL == 15000
MAX_CACHE_SIZE == 50

----------------------------------------------------------------------------
(* Keys.  The callers of the model use the base URLs 1..NumURLs; the keys  *)
(* above 100 are other base URLs, cached before the model starts, which    *)
(* only fill the cache.                                                    *)

URLs == 1..NumURLs
FillerKeys == {100 + i : i \in 1..MAX_CACHE_SIZE}
CallIds == 1..MaxCalls
Refs == 1..(NumURLs + 3 * MaxCalls)

Junk == "junk"
FetchLists == {<<>>, <<"gpt-4">>}
TickSteps == {DEFAULT_TTL, 5 * DEFAULT_TTL}
TTLChoices == {DEFAULT_TTL, 2 * DEFAULT_TTL}

----------------------------------------------------------------------------
(* Map<K, V> as a function on the keys present *)

MapSet(m, k, v) == [x \in DOMAIN m \cup {k} |-> IF x = k THEN v ELSE m[x]]
MapDelete(m, ks) == [x \in DOMAIN m \ ks |-> m[x]]
MapSize(m) == Cardinality(DOMAIN m)
EmptyMap == [x \in {} |-> 0]

(* An optional value: <<>> is undefined, <<v>> is v *)
None == <<>>
Some(v) == <<v>>
MapGet(m, k) == IF k \in DOMAIN m THEN Some(m[k]) ELSE None

Entry(ref, t, ttl) == [models |-> ref, timestamp |-> t, ttl |-> ttl]

----------------------------------------------------------------------------
(* The heap of arrays.  An array stays while the cache, a caller's result  *)
(* or a caller's local `cached` refers to it.                              *)

IdleCall == [pc |-> "idle", url |-> 0, now |-> 0, cached |-> None, ret |-> 0,
             fetched |-> FALSE, ok |-> FALSE, inWin |-> FALSE, forced |-> FALSE]

LiveRefs(c, cs) ==
    {c[u].models : u \in DOMAIN c}
    \cup {cs[i].ret : i \in {j \in CallIds : cs[j].ret # 0}}
    \cup {cs[i].cached[1].models : i \in {j \in CallIds : cs[j].cached # None}}

Collect(h, c, cs) == [r \in DOMAIN h \cap LiveRefs(c, cs) |-> h[r]]

FreeRefs == Refs \ DOMAIN heap
NewRef(used) == CHOOSE r \in Refs \ used : \A q \in Refs \ used : r <= q

----------------------------------------------------------------------------
(* ModelStatusCache *)

\* a freshness test that gives up an entry at half of its time to live
Unexpired_HalfLife(e, t) == (t - e.timestamp) * 2 < e.ttl

\* the hit test of getModels and isValid: (now - cached.timestamp) < cached.ttl
Unexpired(e, t) == (t - e.timestamp) < e.ttl

\* (mutant) an eviction test that already gives up an entry aged exactly 5 x ttl
VeryStale_AtLeast(e, t) == (t - e.timestamp) >= e.ttl * 5

\* the eviction test of the failure path and of cleanup's first disjunct
VeryStale(e, t) == (t - e.timestamp) > e.ttl * 5

IsValid(u) == u \in DOMAIN cache /\ Unexpired(cache[u], now)

\* (mutant) cleanup that only drops the very stale entries
CleanupToDelete_StaleOnly(m, t) == {u \in DOMAIN m : (t - m[u].timestamp) > m[u].ttl * 5}

\* cleanup(): toDelete is computed over the whole map before anything is
\* deleted, so this.cache.size is the size at entry for every key
CleanupToDelete(m, t) ==
    {u \in DOMAIN m : VeryStale(m[u], t) \/ MapSize(m) > MAX_CACHE_SIZE}

Cleanup(m, t) == MapDelete(m, CleanupToDelete(m, t))

\* this.cache.set(...) followed by the size check and cleanup()
InsertAndTrim(m, u, e, t) ==
    LET m1 == MapSet(m, u, e)
    IN  IF MapSize(m1) > MAX_CACHE_SIZE THEN Cleanup(m1, t) ELSE m1

NoCleanup == [ran |-> FALSE, key |-> 0, at |-> 0, before |-> EmptyMap, after |-> EmptyMap]

InWindow(u) == win[u].t >= 0 /\ (now - win[u].t) < win[u].ttl

\* a call that has ended keeps its result; its locals are gone
Returned(call, ref, ok) ==
    [call EXCEPT !.pc = "returned", !.ret = ref, !.ok = ok, !.now = 0, !.cached = None]
Raised(call) == [call EXCEPT !.pc = "raised", !.now = 0, !.cached = None]

\* getModels up to its first await, for a call made now: the lookup, the hit
\* test, and on a hit the return of cached.models itself
Begun(u) ==
    LET cached == MapGet(cache, u)
        hit == cached # None /\ Unexpired(cached[1], now)
    IN  [pc |-> IF hit THEN "returned" ELSE "fetching",
         url |-> u, now |-> IF hit THEN 0 ELSE now,
         cached |-> IF hit THEN None ELSE cached,
         ret |-> IF hit THEN cached[1].models ELSE 0,
         fetched |-> ~hit, ok |-> hit, inWin |-> InWindow(u),
         forced |-> FALSE]

GetModelsBegin(c, u) ==
    /\ calls[c].pc = "idle"
    /\ calls' = [calls EXCEPT ![c] = Begun(u)]
    /\ lastCleanup' = NoCleanup
    /\ UNCHANGED <<now, cache, heap, win>>

\* getModels after fetchFn resolved, at time t, with a new array holding
\* `list`: the entry is stored with the time the call began, the cache is
\* trimmed, and the array fetchFn returned is returned
AfterFetch(c, list, t) ==
    LET u == calls[c].url
        r1 == NewRef(DOMAIN heap)             \* the array fetchFn returned
        r2 == NewRef(DOMAIN heap \cup {r1})   \* [...models]
        e == Entry(r2, calls[c].now, DEFAULT_TTL)
        m1 == MapSet(cache, u, e)
        cache2 == InsertAndTrim(cache, u, e, t)
    IN  [cache |-> cache2,
         calls |-> [calls EXCEPT ![c] = Returned(@, r1, TRUE)],
         heap |-> [r \in DOMAIN heap \cup {r1, r2} |->
                      IF r \in {r1, r2} THEN list ELSE heap[r]],
         win |-> [win EXCEPT ![u] = [t |-> calls[c].now, ttl |-> DEFAULT_TTL]],
         lastCleanup |-> IF MapSize(m1) > MAX_CACHE_SIZE
                         THEN [ran |-> TRUE, key |-> u, at |-> t,
                               before |-> m1, after |-> cache2]
                         ELSE NoCleanup]

GetModelsFetched(c, list) ==
    /\ calls[c].pc = "fetching"
    /\ LET s == AfterFetch(c, list, now)
       IN  /\ cache' = s.cache
           /\ calls' = s.calls
           /\ heap' = Collect(s.heap, s.cache, s.calls)
           /\ win' = s.win
           /\ lastCleanup' = s.lastCleanup
    /\ UNCHANGED now

\* (mutant) a catch block that always rethrows
FailureReturns_Never(cached) == FALSE

\* what the catch block of getModels does with the local `cached`
FailureReturns(cached) == cached # None

\* fetchFn rejected
GetModelsFailed(c) ==
    /\ calls[c].pc = "fetching"
    /\ LET u == calls[c].url
           cached == calls[c].cached
           evict == cached # None /\ VeryStale(cached[1], calls[c].now)
           cache2 == IF evict THEN MapDelete(cache, {u}) ELSE cache
           calls2 == IF FailureReturns(cached)
                     THEN [calls EXCEPT ![c] = Returned(@, cached[1].models, FALSE)]
                     ELSE [calls EXCEPT ![c] = Raised(@)]
       IN  /\ cache' = cache2
           /\ calls' = calls2
           /\ heap' = Collect(heap, cache2, calls2)
    /\ lastCleanup' = NoCleanup
    /\ UNCHANGED <<now, win>>

\* the caller is done with the result
Release(c) ==
    /\ calls[c].pc \in {"returned", "raised"}
    /\ calls' = [calls EXCEPT ![c] = IdleCall]
    /\ heap' = Collect(heap, cache, calls')
    /\ lastCleanup' = NoCleanup
    /\ UNCHANGED <<now, cache, win>>

\* the caller changes the array it was given (models.push(...))
MutateReturned(c) ==
    /\ calls[c].pc = "returned"
    /\ \A i \in 1..Len(heap[calls[c].ret]) : heap[calls[c].ret][i] # Junk
    /\ heap' = [heap EXCEPT ![calls[c].ret] = Append(@, Junk)]
    /\ lastCleanup' = NoCleanup
    /\ UNCHANGED <<now, cache, calls, win>>

Invalidate(u) ==
    /\ cache' = MapDelete(cache, {u})
    /\ heap' = Collect(heap, cache', calls)
    /\ win' = [win EXCEPT ![u] = [t |-> -1, ttl |-> 0]]
    /\ lastCleanup' = NoCleanup
    /\ UNCHANGED <<now, calls>>

InvalidateAll ==
    /\ cache' = EmptyMap
    /\ heap' = Collect(heap, cache', calls)
    /\ win' = [u \in URLs |-> [t |-> -1, ttl |-> 0]]
    /\ lastCleanup' = NoCleanup
    /\ UNCHANGED <<now, calls>>

\* forceRefresh up to its first await: invalidate, then getModels' lookup
ForceRefreshBegin(c, u) ==
    /\ calls[c].pc = "idle"
    /\ cache' = MapDelete(cache, {u})
    /\ calls' = [calls EXCEPT ![c] = [pc |-> "fetching", url |-> u, now |-> now,
                                      cached |-> None, ret |-> 0, fetched |-> TRUE,
                                      ok |-> FALSE, inWin |-> FALSE, forced |-> TRUE]]
    /\ heap' = Collect(heap, cache', calls')
    /\ win' = [win EXCEPT ![u] = [t |-> -1, ttl |-> 0]]
    /\ lastCleanup' = NoCleanup
    /\ UNCHANGED now

\* the entry object is changed in place, so a call that awaits its fetch with
\* that object in its local `cached` sees the new ttl; an entry object is
\* known by its models array, which no other entry shares
SameEntry(call, u) ==
    /\ u \in DOMAIN cache
    /\ call.cached # None
    /\ call.url = u
    /\ call.cached[1].models = cache[u].models

SetTTL(u, ttl) ==
    /\ cache' = IF u \in DOMAIN cache THEN [cache EXCEPT ![u].ttl = ttl] ELSE cache
    /\ calls' = [c \in CallIds |->
                    IF SameEntry(calls[c], u)
                    THEN [calls[c] EXCEPT !.cached = <<[@[1] EXCEPT !.ttl = ttl]>>]
                    ELSE calls[c]]
    /\ win' = IF u \in DOMAIN cache /\ win[u].t >= 0 THEN [win EXCEPT ![u].ttl = ttl] ELSE win
    /\ lastCleanup' = NoCleanup
    /\ UNCHANGED <<now, heap>>

Tick(d) ==
    /\ now + d <= MaxTime
    /\ now' = now + d
    /\ lastCleanup' = NoCleanup
    /\ UNCHANGED <<cache, heap, calls, win>>

----------------------------------------------------------------------------
(* Strings.  Chars gives the characters of the texts of this model, so that  *)
(* toLowerCase and includes work on them as the code's do.                  *)

ModelIds == {"gpt-4", "network-7b"}

\* `Model '${model.id}' not loaded`
NotLoadedMessage(id) ==
    CASE id = "gpt-4" -> "Model 'gpt-4' not loaded"
    [] id = "network-7b" -> "Model 'network-7b' not loaded"

Chars(t) ==
    CASE t = "" ->
         <<>>
    [] t = "gpt-4" ->
         <<"g", "p", "t", "-", "4">>
    [] t = "network-7b" ->
         <<"n", "e", "t", "w", "o", "r", "k", "-", "7", "b">>
    [] t = "Model 'gpt-4' not loaded" ->
         <<"M", "o", "d", "e", "l", " ", "'", "g", "p", "t", "-", "4", "'", " ", "n", "o", "t", " ", "l", "o", "a", "d", "e", "d">>
    [] t = "Model 'network-7b' not loaded" ->
         <<"M", "o", "d", "e", "l", " ", "'", "n", "e", "t", "w", "o", "r", "k", "-", "7", "b", "'", " ", "n", "o", "t", " ", "l", "o", "a", "d", "e", "d">>
    [] t = "Max retries exceeded" ->
         <<"M", "a", "x", " ", "r", "e", "t", "r", "i", "e", "s", " ", "e", "x", "c", "e", "e", "d", "e", "d">>
    [] t = "Validation operation failed" ->
         <<"V", "a", "l", "i", "d", "a", "t", "i", "o", "n", " ", "o", "p", "e", "r", "a", "t", "i", "o", "n", " ", "f", "a", "i", "l", "e", "d">>
    [] t = "fetch failed" ->
         <<"f", "e", "t", "c", "h", " ", "f", "a", "i", "l", "e", "d">>
    [] t = "404" ->
         <<"4", "0", "4">>

UpperCase == <<"A", "B", "C", "D", "E", "F", "G", "H", "I", "J", "K", "L", "M", "N", "O", "P", "Q", "R", "S", "T", "U", "V", "W", "X", "Y", "Z">>
LowerCase == <<"a", "b", "c", "d", "e", "f", "g", "h", "i", "j", "k", "l", "m", "n", "o", "p", "q", "r", "s", "t", "u", "v", "w", "x", "y", "z">>

LowerChar(ch) ==
    IF \E i \in 1..Len(UpperCase) : UpperCase[i] = ch
    THEN LowerCase[CHOOSE i \in 1..Len(UpperCase) : UpperCase[i] = ch]
    ELSE ch

ToLowerCase(str) == [i \in 1..Len(str) |-> LowerChar(str[i])]

\* String.prototype.includes
StrIncludes(str, pat) ==
    \E i \in 0..(Len(str) - Len(pat)) : SubSeq(str, i + 1, i + Len(pat)) = pat

\* Array.prototype.includes
ArrIncludes(arr, x) == \E i \in 1..Len(arr) : arr[i] = x

----------------------------------------------------------------------------
(* categorizeError(error, {baseURL, modelId}) *)

Category(type, severity, canRetry, autoFix) ==
    [type |-> type, severity |-> severity, canRetry |-> canRetry,
     autoFixAvailable |-> autoFix]

NoCategory == Category("", "", FALSE, FALSE)

\* (mutant) the timeout row tested before the offline row
CategorizeChars_TimeoutFirst(str) ==
    LET errorStr == ToLowerCase(str)
        has(pat) == StrIncludes(errorStr, pat)
    IN  IF has(<<"t", "i", "m", "e", "o", "u", "t">>) \/ has(<<"a", "b", "o", "r", "t", "e", "d">>)
        THEN Category("timeout", "medium", TRUE, FALSE)
        ELSE IF has(<<"e", "c", "o", "n", "n", "r", "e", "f", "u", "s", "e", "d">>) \/ has(<<"f", "e", "t", "c", "h", " ", "f", "a", "i", "l", "e", "d">>) \/ has(<<"n", "e", "t", "w", "o", "r", "k">>)
        THEN Category("offline", "critical", TRUE, TRUE)
        ELSE IF has(<<"4", "0", "4">>) \/ has(<<"n", "o", "t", " ", "f", "o", "u", "n", "d">>)
        THEN Category("not_found", "high", FALSE, FALSE)
        ELSE IF has(<<"4", "0", "1">>) \/ has(<<"4", "0", "3">>) \/ has(<<"u", "n", "a", "u", "t", "h", "o", "r", "i", "z", "e", "d">>)
        THEN Category("permission", "high", FALSE, FALSE)
        ELSE Category("unknown", "medium", TRUE, FALSE)

\* categorizeError on the characters of String(error)
CategorizeChars(str) ==
    LET errorStr == ToLowerCase(str)
        has(pat) == StrIncludes(errorStr, pat)
    IN  IF has(<<"e", "c", "o", "n", "n", "r", "e", "f", "u", "s", "e", "d">>) \/ has(<<"f", "e", "t", "c", "h", " ", "f", "a", "i", "l", "e", "d">>) \/ has(<<"n", "e", "t", "w", "o", "r", "k">>)
        THEN Category("offline", "critical", TRUE, TRUE)
        ELSE IF has(<<"t", "i", "m", "e", "o", "u", "t">>) \/ has(<<"a", "b", "o", "r", "t", "e", "d">>)
        THEN Category("timeout", "medium", TRUE, FALSE)
        ELSE IF has(<<"4", "0", "4">>) \/ has(<<"n", "o", "t", " ", "f", "o", "u", "n", "d">>)
        THEN Category("not_found", "high", FALSE, FALSE)
        ELSE IF has(<<"4", "0", "1">>) \/ has(<<"4", "0", "3">>) \/ has(<<"u", "n", "a", "u", "t", "h", "o", "r", "i", "z", "e", "d">>)
        THEN Category("permission", "high", FALSE, FALSE)
        ELSE Category("unknown", "medium", TRUE, FALSE)

CategorizeError(error) == CategorizeChars(Chars(error))

\* calls of pure functions
IdleFn == [op |-> "", args |-> <<>>, returned |-> FALSE, out |-> <<>>]

\* the pieces the error texts given to categorizeError are made of
ErrorFragments ==
    {<<"E", "C", "O", "N", "N", "R", "E", "F", "U", "S", "E", "D">>,
     <<"F", "e", "t", "c", "h", " ", "F", "a", "i", "l", "e", "d">>,
     <<"n", "e", "t", "w", "o", "r", "k">>,
     <<"T", "i", "m", "e", "o", "u", "t">>,
     <<"a", "b", "o", "r", "t", "e", "d">>,
     <<"4", "0", "4">>,
     <<"N", "o", "t", " ", "F", "o", "u", "n", "d">>,
     <<"4", "0", "1">>,
     <<"4", "0", "3">>,
     <<"u", "n", "a", "u", "t", "h", "o", "r", "i", "z", "e", "d">>,
     <<"x", "y", "z">>,
     <<" ">>}
MaxFragments == 2     \* pieces in one error text

RECURSIVE Texts(_, _)
Texts(pieces, n) ==
    IF n = 0 THEN {<<>>}
    ELSE Texts(pieces, n - 1)
         \cup {t \o f : t \in Texts(pieces, n - 1), f \in pieces}

ErrorInputs == Texts(ErrorFragments, MaxFragments)

Categorize(str) ==
    /\ fn = IdleFn
    /\ fn' = [op |-> "categorizeError", args |-> <<str>>, returned |-> TRUE,
              out |-> CategorizeChars(str)]
    /\ UNCHANGED <<now, cacheVars, rt, hk, server, ad, toasts, cf, mon, stats, inval, race>>

ClassifyNext == \E str \in ErrorInputs : Categorize(str)

\* the error texts of the model and their categories, computed once
ErrorTexts == {NotLoadedMessage(id) : id \in ModelIds}
              \cup {"Max retries exceeded", "Validation operation failed",
                    "fetch failed", "404"}
Categories == [t \in ErrorTexts |-> CategorizeError(t)]

----------------------------------------------------------------------------
(* findSimilarModels(targetModel, availableModels) *)

\* scores are kept as whole numbers of 1/Scale, so that 0.5, 0.2, 0.1 and
\* 0.3 * k / n (n up to 10) are exact; the rounding of floating-point
\* addition is not modelled
Scale == 25200
MAX_SUGGESTIONS == 5

Min2(a, b) == IF a < b THEN a ELSE b
Max2(a, b) == IF a > b THEN a ELSE b

\* /[-_\s]/
Separators == {"-", "_", " "}

\* str.split(/[-_\s]/).filter(Boolean): the non-empty runs between separators
RECURSIVE SplitFrom(_, _, _, _)
SplitFrom(str, i, cur, acc) ==
    IF i > Len(str)
    THEN IF cur = <<>> THEN acc ELSE Append(acc, cur)
    ELSE IF str[i] \in Separators
    THEN SplitFrom(str, i + 1, <<>>, IF cur = <<>> THEN acc ELSE Append(acc, cur))
    ELSE SplitFrom(str, i + 1, Append(cur, str[i]), acc)

Tokens(str) == SplitFrom(str, 1, <<>>, <<>>)

CommonSuffixes ==
    <<<<"3", "b">>, <<"7", "b">>, <<"1", "3", "b">>, <<"7", "0", "b">>, <<"q", "4">>, <<"q", "8">>, <<"i", "n", "s", "t", "r", "u", "c", "t">>, <<"c", "h", "a", "t">>, <<"b", "a", "s", "e">>>>

\* targetTokens.filter(token => candidateTokens.includes(token))
CommonTokens(tt, ct) == SelectSeq(tt, LAMBDA token : ArrIncludes(ct, token))

\* the suffixes found in both strings, in the order of commonSuffixes
SharedSuffixes(target, candidate) ==
    SelectSeq(CommonSuffixes,
              LAMBDA suffix : StrIncludes(target, suffix) /\ StrIncludes(candidate, suffix))

\* (mutant) a score that is not clamped
Clamp_None(similarity) == similarity

\* Math.min(similarity, 1.0)
Clamp(similarity) == Min2(similarity, Scale)

\* the callback of .map: the score of one candidate and its reasons
Scored(targetModel, model) ==
    LET target == ToLowerCase(targetModel)
        targetTokens == Tokens(target)
        candidate == ToLowerCase(model)
        candidateTokens == Tokens(candidate)
        exact == candidate = target
        family == /\ targetTokens # <<>> /\ candidateTokens # <<>>
                  /\ targetTokens[1] = candidateTokens[1]
        shared == SharedSuffixes(target, candidate)
        commonTokens == CommonTokens(targetTokens, candidateTokens)
        overlap == IF Len(commonTokens) > 0
                   THEN (Len(commonTokens) * 3 * (Scale \div 10))
                        \div Max2(Len(targetTokens), Len(candidateTokens))
                   ELSE 0
        similarity == (IF exact THEN Scale ELSE 0)
                      + (IF family THEN Scale \div 2 ELSE 0)
                      + Len(shared) * (Scale \div 5)
                      + overlap
    IN  [model |-> model,
         similarity |-> Clamp(similarity),
         reason |-> (IF exact THEN <<"exact">> ELSE <<>>)
                    \o (IF family THEN <<"family">> ELSE <<>>)
                    \o [i \in 1..Len(shared) |-> "suffix"]
                    \o (IF Len(commonTokens) > 0 THEN <<"tokens">> ELSE <<>>)]

\* .sort((a, b) => b.similarity - a.similarity): stable, by insertion
RECURSIVE InsertSorted(_, _)
InsertSorted(sorted, item) ==
    IF sorted = <<>> THEN <<item>>
    ELSE IF Head(sorted).similarity >= item.similarity
    THEN <<Head(sorted)>> \o InsertSorted(Tail(sorted), item)
    ELSE <<item>> \o sorted

RECURSIVE SortDescending(_)
SortDescending(items) ==
    IF items = <<>> THEN <<>>
    ELSE InsertSorted(SortDescending(SubSeq(items, 1, Len(items) - 1)),
                      items[Len(items)])

\* (mutant) a filter that keeps every candidate
Similar_All(item) == TRUE

\* item.similarity > 0.1
Similar(item) == item.similarity > Scale \div 10

\* (mutant) no limit on the number of suggestions
TopSuggestions_All(sorted) == sorted

\* .slice(0, 5)
TopSuggestions(sorted) == SubSeq(sorted, 1, Min2(MAX_SUGGESTIONS, Len(sorted)))

\* the mapped list, each item with the index of its candidate
MappedModels(targetModel, availableModels) ==
    [i \in 1..Len(availableModels) |->
        [index |-> i] @@ Scored(targetModel, availableModels[i])]

FindSimilarModels(targetModel, availableModels) ==
    TopSuggestions(SortDescending(
        SelectSeq(MappedModels(targetModel, availableModels), Similar)))

\* the model ids of the ranking calls
RankIds ==
    {<<"g", "p", "t", "-", "4">>,
     <<"l", "l", "a", "m", "a", "-", "3", ".", "2", "-", "3", "b", "-", "i", "n", "s", "t", "r", "u", "c", "t">>,
     <<"q", "w", "e", "n", "/", "q", "w", "e", "n", "3", "-", "3", "0", "b", "-", "i", "n", "s", "t", "r", "u", "c", "t">>,
     <<"q", "w", "e", "n", "/", "q", "w", "e", "n", "3", "-", "3", "0", "b", "-", "c", "h", "a", "t">>,
     <<"l", "l", "a", "m", "a", "-", "3", ".", "2", "-", "3", "b">>,
     <<"L", "l", "a", "m", "a", "_", "1", "3", "B", " ", "c", "h", "a", "t">>,
     <<"l", "l", "a", "m", "a", "-", "l", "l", "a", "m", "a", "-", "7", "b">>,
     <<>>,
     <<"-">>,
     <<"m", "i", "s", "t", "r", "a", "l", "-", "7", "b", "-", "i", "n", "s", "t", "r", "u", "c", "t", "-", "q", "4">>}

\* eight ids: six of the family qwen/qwen3, two of other families
LongBase ==
    <<<<"q", "w", "e", "n", "/", "q", "w", "e", "n", "3", "-", "3", "0", "b", "-", "c", "h", "a", "t">>,
      <<"q", "w", "e", "n", "/", "q", "w", "e", "n", "3", "-", "3", "0", "b", "-", "i", "n", "s", "t", "r", "u", "c", "t">>,
      <<"q", "w", "e", "n", "/", "q", "w", "e", "n", "3", "-", "7", "b">>,
      <<"q", "w", "e", "n", "/", "q", "w", "e", "n", "3", "-", "3", "0", "b", "-", "b", "a", "s", "e">>,
      <<"q", "w", "e", "n", "/", "q", "w", "e", "n", "3", "-", "i", "n", "s", "t", "r", "u", "c", "t">>,
      <<"q", "w", "e", "n", "/", "q", "w", "e", "n", "3">>,
      <<"l", "l", "a", "m", "a", "-", "3", ".", "2", "-", "3", "b">>,
      <<"g", "p", "t", "-", "4">>>>

MaxShortLen == 1      \* candidates in a list drawn freely from RankIds
MaxLongLen == 7       \* candidates in a list cut from LongBase

RECURSIVE Lists(_, _)
Lists(ids, n) ==
    IF n = 0 THEN {<<>>}
    ELSE Lists(ids, n - 1)
         \cup {Append(l, id) : l \in {k \in Lists(ids, n - 1) : Len(k) = n - 1}, id \in ids}

\* n candidates of LongBase from position r on, wrapping around
Cut(r, n) == [i \in 1..n |-> LongBase[((r + i - 2) % Len(LongBase)) + 1]]

\* an id and a longer id of the same family with the same three suffixes
QuantizedId == <<"m", "i", "s", "t", "r", "a", "l", "-", "7", "b", "-", "i", "n", "s", "t", "r", "u", "c", "t", "-", "q", "4">>
QuantizedVariant == <<"m", "i", "s", "t", "r", "a", "l", "-", "7", "b", "-", "i", "n", "s", "t", "r", "u", "c", "t", "-", "q", "4", "-", "k">>

CandidateLists ==
    Lists(RankIds, MaxShortLen)
    \cup {<<QuantizedId, QuantizedVariant>>, <<QuantizedVariant, QuantizedId>>}
    \cup {Cut(r, n) : r \in 1..Len(LongBase), n \in 0..MaxLongLen}
    \cup Lists({LongBase[1], LongBase[7]}, MaxLongLen)

\* findSimilarModels is called
RankCall(targetModel, availableModels) ==
    /\ fn = IdleFn
    /\ fn' = [IdleFn EXCEPT !.op = "findSimilarModels",
                            !.args = <<targetModel, availableModels>>]
    /\ UNCHANGED <<now, cacheVars, rt, hk, server, ad, toasts, cf, mon, stats, inval, race>>

\* and returns; the mapped list is kept beside the result
RankReturn ==
    /\ fn.op = "findSimilarModels" /\ ~fn.returned
    /\ fn' = [fn EXCEPT !.returned = TRUE,
                        !.out = [ranked |-> FindSimilarModels(fn.args[1], fn.args[2]),
                                 mapped |-> MappedModels(fn.args[1], fn.args[2])]]
    /\ UNCHANGED <<now, cacheVars, rt, hk, server, ad, toasts, cf, mon, stats, inval, race>>

RankNext ==
    \/ \E t \in RankIds, l \in CandidateLists : RankCall(t, l)
    \/ RankReturn

----------------------------------------------------------------------------
(* retryWithBackoff(operation, maxRetries, baseDelay) *)


BaseDelays == {500, 1000}
RetryCounts == (-1)..MaxRetriesBound

\* what an operation may throw: an Error (its message is reported) or any
\* other value (String(value) is reported)
Thrown == {[kind |-> "Error", message |-> "fetch failed", value |-> 0],
           [kind |-> "number", message |-> "", value |-> 404]}
NotThrown == [kind |-> "none", message |-> "", value |-> 0]
OpResults == {"r1", "r2"}
Outcomes == {[ok |-> TRUE, value |-> v, thrown |-> NotThrown] : v \in OpResults}
            \cup {[ok |-> FALSE, value |-> "", thrown |-> th] : th \in Thrown}

NoResult == [set |-> FALSE, success |-> FALSE, result |-> "", error |-> ""]
Success(v) == [set |-> TRUE, success |-> TRUE, result |-> v, error |-> ""]
Failure(msg) == [set |-> TRUE, success |-> FALSE, result |-> "", error |-> msg]

IdleRetry == [pc |-> "idle", maxRetries |-> 0, baseDelay |-> 0, attempt |-> 0,
              invoked |-> 0, waits |-> <<>>, due |-> 0, started |-> 0,
              history |-> <<>>, result |-> NoResult]

\* String(value) of the values thrown in this model
StringOf(v) == CASE v = 404 -> "404" [] v = 0 -> "0" [] OTHER -> "NaN"

\* error instanceof Error ? error.message : String(error)
ErrorText(th) == IF th.kind = "Error" THEN th.message ELSE StringOf(th.value)

\* (mutant) a catch clause that handles only Error instances
Catches_ErrorsOnly(th) == th.kind = "Error"

\* catch (error): every thrown value is caught, whatever its kind
Catches(th) == TRUE

\* the loop condition: attempt <= maxRetries
LoopContinues(attempt, maxRetries) == attempt <= maxRetries

\* if (attempt === maxRetries)
IsLastAttempt(attempt, maxRetries) == attempt = maxRetries

\* (mutant) linear backoff
BackoffDelay_Linear(baseDelay, attempt) == baseDelay * (attempt + 1)

\* baseDelay * Math.pow(2, attempt)
BackoffDelay(baseDelay, attempt) == baseDelay * (2 ^ attempt)

\* the loop head for `attempt`: enter the body, or fall out of the loop to
\* the final return
LoopHead(r, attempt) ==
    IF LoopContinues(attempt, r.maxRetries)
    THEN [r EXCEPT !.pc = "ready", !.attempt = attempt]
    ELSE [r EXCEPT !.pc = "done", !.attempt = attempt,
                   !.result = Failure("Max retries exceeded")]

\* the call, up to the loop head
Started(maxRetries, baseDelay, t) ==
    LoopHead([IdleRetry EXCEPT !.maxRetries = maxRetries, !.baseDelay = baseDelay,
                               !.started = t], 0)

\* operation() is invoked
Invoked(r) == [r EXCEPT !.pc = "running", !.invoked = @ + 1]

\* the awaited operation settled: return the result, or catch the failure and
\* return it (last attempt) or arm the backoff timer
Settled(r, outcome, t) ==
    LET r1 == [r EXCEPT !.history = Append(@, outcome)]
    IN  IF outcome.ok
        THEN [r1 EXCEPT !.pc = "done", !.result = Success(outcome.value)]
        ELSE IF ~Catches(outcome.thrown)
        THEN [r1 EXCEPT !.pc = "raised"]
        ELSE IF IsLastAttempt(r.attempt, r.maxRetries)
        THEN [r1 EXCEPT !.pc = "done", !.result = Failure(ErrorText(outcome.thrown))]
        ELSE [r1 EXCEPT !.pc = "waiting",
                        !.waits = Append(@, BackoffDelay(r.baseDelay, r.attempt)),
                        !.due = t + BackoffDelay(r.baseDelay, r.attempt)]

\* the timer fired: attempt++ and back to the loop head
TimerFired(r) == LoopHead(r, r.attempt + 1)

RetryStart(maxRetries, baseDelay) ==
    /\ rt.pc = "idle"
    /\ rt' = Started(maxRetries, baseDelay, now)
    /\ UNCHANGED <<now, cacheVars>>

RetryInvoke ==
    /\ rt.pc = "ready"
    /\ rt' = Invoked(rt)
    /\ UNCHANGED <<now, cacheVars>>

RetrySettle(outcome) ==
    /\ rt.pc = "running"
    /\ rt' = Settled(rt, outcome, now)
    /\ UNCHANGED <<now, cacheVars>>

\* setTimeout(resolve, delay): the clock reaches the due time
RetryTimer ==
    /\ rt.pc = "waiting"
    /\ now' = IF now < rt.due THEN rt.due ELSE now
    /\ rt' = TimerFired(rt)
    /\ UNCHANGED cacheVars

RetryNext ==
    \/ \E m \in RetryCounts, b \in BaseDelays : RetryStart(m, b)
    \/ RetryInvoke
    \/ \E o \in Outcomes : RetrySettle(o)
    \/ RetryTimer

----------------------------------------------------------------------------
(* Base URLs as texts, and normalizeBaseURL *)

DEFAULT_LLAMA_CPP_URL == 1

\* the text of the base URL that the cache key u stands for
URLChars(u) ==
    CASE u = 1 ->
         <<"h", "t", "t", "p", ":", "/", "/", "1", "2", "7", ".", "0", ".", "0", ".", "1", ":", "1", "2", "3", "4">>
    [] u = 2 ->
         <<"h", "t", "t", "p", ":", "/", "/", "1", "2", "7", ".", "0", ".", "0", ".", "1", ":", "8", "0", "8", "0">>
    [] u = 3 ->
         <<"h", "t", "t", "p", ":", "/", "/", "1", "2", "7", ".", "0", ".", "0", ".", "1", ":", "1", "1", "4", "3", "4">>

Slash == <<"/">>
V1Suffix == <<"/", "v", "1">>

\* the spellings of base URL u that a provider configuration may carry; the
\* empty text stands for a configuration without baseURL
RawURLs(u) ==
    {URLChars(u), URLChars(u) \o Slash, URLChars(u) \o Slash \o Slash,
     URLChars(u) \o V1Suffix, URLChars(u) \o V1Suffix \o Slash}
    \cup (IF u = DEFAULT_LLAMA_CPP_URL THEN {<<>>} ELSE {})

EndsWith(str, suffix) ==
    /\ Len(str) >= Len(suffix)
    /\ SubSeq(str, Len(str) - Len(suffix) + 1, Len(str)) = suffix

\* baseURL.replace(/\/+$/, '')
RECURSIVE StripTrailingSlashes(_)
StripTrailingSlashes(str) ==
    IF EndsWith(str, Slash)
    THEN StripTrailingSlashes(SubSeq(str, 1, Len(str) - 1))
    ELSE str

\* (mutant) the /v1 test without the removal of trailing slashes
NormalizeBaseURL_NoStrip(str) ==
    IF EndsWith(str, V1Suffix) THEN SubSeq(str, 1, Len(str) - 3) ELSE str

\* normalizeBaseURL
NormalizeBaseURL(str) ==
    LET normalized == StripTrailingSlashes(str)
    IN  IF EndsWith(normalized, V1Suffix)
        THEN SubSeq(normalized, 1, Len(normalized) - 3)
        ELSE normalized

\* the cache key of a normalized text (0: a text that is no base URL of the model)
KeyOf(str) ==
    IF \E u \in URLs : URLChars(u) = str
    THEN CHOOSE u \in URLs : URLChars(u) = str
    ELSE 0

\* const LLAMA_CPP_MODELS_ENDPOINT = "/v1/models"
ModelsEndpoint == <<"/", "v", "1", "/", "m", "o", "d", "e", "l", "s">>

\* buildAPIURL(baseURL)
BuildAPIURL(baseURL) == NormalizeBaseURL(baseURL) \o ModelsEndpoint

\* base URLs, some of them ending in a slash or in /v1 themselves
Origins == {<<"h", "t", "t", "p", ":", "/", "/", "1", "2", "7", ".", "0", ".", "0", ".", "1", ":", "1", "2", "3", "4">>, <<"h", "t", "t", "p", ":", "/", "/", "l", "o", "c", "a", "l", "h", "o", "s", "t", ":", "8", "0", "8", "0">>, <<"h", "t", "t", "p", "s", ":", "/", "/", "h">>, <<"h">>, <<>>}
Paths == {<<>>, <<"/", "a", "p", "i">>, <<"/", "v", "1", "x">>, <<"/", "v", "1", "/", "a", "p", "i">>, <<"/", "v", "1", "/", "v", "1">>, <<"/", "/", "x">>, <<"/", "v">>}
BaseTexts == {o \o p : o \in Origins, p \in Paths}

\* what a caller may append to a base URL
Endings == {<<>>, <<"/">>, <<"/", "v", "1">>, <<"/", "v", "1", "/">>, <<"/", "/">>, <<"/", "v", "1", "/", "/">>}

\* one call of normalizeBaseURL and of buildAPIURL on base \o ending
Normalize(base, ending) ==
    /\ fn = IdleFn
    /\ fn' = [op |-> "normalizeBaseURL", args |-> <<base, ending>>, returned |-> TRUE,
              out |-> <<NormalizeBaseURL(base \o ending), BuildAPIURL(base \o ending)>>]
    /\ UNCHANGED <<now, cacheVars, rt, hk, server, ad, toasts, cf, mon, stats, inval, race>>

NormalizeNext == \E base \in BaseTexts, ending \in Endings : Normalize(base, ending)

----------------------------------------------------------------------------
(* The server and fetchLlamaCppModelsDirect *)

FETCH_TIMEOUT == 3000

ServerLists == {<<>>, <<"gpt-4">>}

\* how GET /v1/models ends: a 200 with the loaded models, a refused
\* connection, no answer before the abort signal, or a 500
ServerStates ==
    {[mode |-> "ok", models |-> l] : l \in ServerLists}
    \cup {[mode |-> m, models |-> <<>>] : m \in {"refused", "timeout", "http500"}}

\* what fetch() and the response.ok test throw, by server mode
TransportError(mode) ==
    CASE mode = "refused" -> "fetch failed"
      [] mode = "timeout" -> "The operation was aborted due to timeout"
      [] mode = "http500" -> "HTTP 500: Internal Server Error"
      [] OTHER -> ""

\* fetchLlamaCppModelsDirect: the bare catch turns every failure into []
FetchLlamaCppModelsDirect(srv) ==
    IF TransportError(srv.mode) = "" THEN srv.models ELSE <<>>

\* the time the request takes
FetchLatency(srv) == IF srv.mode = "timeout" THEN FETCH_TIMEOUT ELSE 0

ServerHas(id) == server.mode = "ok" /\ ArrIncludes(server.models, id)

----------------------------------------------------------------------------
(* ToastNotifier and the chat.params hook *)

\* how a toast method's call of client.tui.showToast goes: the toast is
\* shown, showToast rejects, or the client has no tui.showToast
ToastResults == {"shown", "rejected", "missing"}

\* (mutant) a toast method without its try/catch
ToastRaises_Uncaught(result) == result = "rejected"

\* ToastNotifier.success/error/progress: a missing API returns early, a
\* failing showToast is caught and logged
ToastRaises(result) == FALSE

\* the hook's own ModelStatusCache instance: nothing ever stores into it
HookCache == EmptyMap

InputKinds == {"valid", "notHookInput", "invalidModel", "otherProvider"}

\* the values chat.params may be called with: input, input.model and
\* input.provider, each with the JavaScript type the guards look at
NoModel == [type |-> "undefined", idType |-> "undefined", id |-> ""]
Models ==
    {NoModel,
     [type |-> "object", idType |-> "undefined", id |-> ""],
     [type |-> "object", idType |-> "number", id |-> ""],
     [type |-> "object", idType |-> "string", id |-> ""]}
    \cup {[type |-> "object", idType |-> "string", id |-> id] : id \in ModelIds}

NoProvider == [type |-> "undefined", info |-> FALSE, id |-> ""]
Providers ==
    {NoProvider,
     [type |-> "object", info |-> FALSE, id |-> ""],
     [type |-> "object", info |-> TRUE, id |-> "anthropic"],
     [type |-> "object", info |-> TRUE, id |-> "llama.cpp"]}

HookInputs ==
    {[type |-> t, model |-> NoModel, provider |-> NoProvider] : t \in {"undefined", "string"}}
    \cup {[type |-> "object", model |-> m, provider |-> p] : m \in Models, p \in Providers}

\* input && typeof input === 'object'
IsPluginHookInput(input) == input.type = "object"

\* model && typeof model === 'object' && typeof model.id === 'string' && model.id.length > 0
IsValidModel(model) ==
    /\ model.type = "object"
    /\ model.idType = "string"
    /\ Len(Chars(model.id)) > 0

\* (mutant) a provider guard that does not compare the id
IsLlamaCppProvider_AnyId(provider) ==
    /\ provider.type = "object"
    /\ provider.info

\* provider && typeof provider === 'object' && provider.info && provider.info.id === 'llama.cpp'
IsLlamaCppProvider(provider) ==
    /\ provider.type = "object"
    /\ provider.info
    /\ provider.id = "llama.cpp"

\* the guard at which the hook returns, or "valid"
KindOf(input) ==
    IF ~IsPluginHookInput(input) THEN "notHookInput"
    ELSE IF ~IsValidModel(input.model) THEN "invalidModel"
    ELSE IF ~IsLlamaCppProvider(input.provider) THEN "otherProvider"
    ELSE "valid"
HOOK_MAX_RETRIES == 2
HOOK_BASE_DELAY == 500

NoOutcome == [status |-> "", model |-> "", availableModels |-> <<>>,
              errorCategory |-> "", severity |-> "", canRetry |-> FALSE,
              autoFixAvailable |-> FALSE,
              similarModels |-> <<>>,
              cacheInfo |-> [age |-> 0, valid |-> FALSE, totalCacheEntries |-> 0],
              performanceHint |-> ""]

\* Math.round(item.similarity * 100)
Percent(similarity) == (similarity * 100 + Scale \div 2) \div Scale

\* findSimilarModels(model.id, availableModels) as the error report carries it
SimilarModels(id, available) ==
    LET found == FindSimilarModels(Chars(id), [i \in 1..Len(available) |-> Chars(available[i])])
    IN  [k \in 1..Len(found) |->
            [model |-> available[found[k].index],
             similarity |-> Percent(found[k].similarity),
             reason |-> found[k].reason]]

\* the suggestions for the requests and lists of the model, computed once
Suggestions == [id \in ModelIds |-> [l \in ServerLists |-> SimilarModels(id, l)]]

IdleHook == [pc |-> "idle", kind |-> "", model |-> "", url |-> 0, requests |-> 0,
             hadEntry |-> FALSE, fetches |-> {}, obs |-> <<>>,
             category |-> NoCategory, available |-> <<>>, availableFrom |-> "",
             loaded |-> <<>>, outcome |-> NoOutcome, writes |-> 0]

HookAtRest == hk.pc \in {"idle", "returned", "raised"}

\* (mutant) an operation that returns the list without the includes test
OperationOutcome_Unchecked(list, id) ==
    [ok |-> TRUE, value |-> list, thrown |-> NotThrown]

\* the operation passed to retryWithBackoff, after getLoadedModels resolved
OperationOutcome(list, id) ==
    IF ArrIncludes(list, id)
    THEN [ok |-> TRUE, value |-> list, thrown |-> NotThrown]
    ELSE [ok |-> FALSE, value |-> <<>>,
          thrown |-> [kind |-> "Error", message |-> NotLoadedMessage(id), value |-> 0]]

\* the hook is called; the input guards return early, otherwise the base URL
\* is normalized and the progress toast is requested
HookCall(kind, id, raw) ==
    /\ HookAtRest
    /\ LET text == NormalizeBaseURL(IF raw = <<>> THEN URLChars(DEFAULT_LLAMA_CPP_URL) ELSE raw)
       IN  hk' = IF kind = "valid"
                 THEN [IdleHook EXCEPT !.pc = "progress", !.kind = kind, !.model = id,
                                       !.url = KeyOf(text),
                                       !.requests = hk.requests + 1,
                                       !.hadEntry = KeyOf(text) \in DOMAIN cache]
                 ELSE [IdleHook EXCEPT !.pc = "returned", !.kind = kind,
                                       !.requests = hk.requests + 1]
    /\ rt' = IdleRetry
    /\ lastCleanup' = NoCleanup
    /\ UNCHANGED <<now, cache, heap, calls, win, server>>

\* chat.params is called with an input and the provider's baseURL option
HookRequest(input, raw) == HookCall(KindOf(input), input.model.id, raw)

\* safeAsyncOperation(toastNotifier.progress) settled; retryWithBackoff starts
AfterProgressToast(result) == [hk EXCEPT !.pc = "validating"]

HookProgressToast(result) ==
    /\ hk.pc = "progress"
    /\ hk' = AfterProgressToast(result)
    /\ rt' = Started(HOOK_MAX_RETRIES, HOOK_BASE_DELAY, now)
    /\ UNCHANGED <<now, cacheVars, server>>

\* one attempt of the operation begins: getLoadedModels(baseURL) runs
\* getModels up to its await; a cache hit resolves at once and the operation
\* settles
HookAttempt ==
    /\ hk.pc = "validating"
    /\ rt.pc = "ready"
    /\ calls[1].pc = "idle"
    /\ LET call == Begun(hk.url)
           hit == call.pc = "returned"
           list == IF hit THEN heap[call.ret] ELSE <<>>
           o == [had |-> ServerHas(hk.model), hit |-> hit,
                 saw |-> hit /\ ArrIncludes(list, hk.model)]
       IN  /\ hk' = [hk EXCEPT !.obs = Append(@, o)]
           /\ rt' = IF hit
                    THEN Settled(Invoked(rt), OperationOutcome(list, hk.model), now)
                    ELSE Invoked(rt)
           /\ calls' = IF hit THEN calls ELSE [calls EXCEPT ![1] = call]
    /\ lastCleanup' = NoCleanup
    /\ UNCHANGED <<now, cache, heap, win, server>>

\* the state after the getModels call of the hook got the server's answer and
\* handed its result to the hook
HookFetched ==
    LET list == FetchLlamaCppModelsDirect(server)
        t == now + FetchLatency(server)
        s == AfterFetch(1, list, t)
        calls2 == [calls EXCEPT ![1] = IdleCall]
    IN  [list |-> list, t |-> t, cache |-> s.cache, calls |-> calls2,
         heap |-> Collect(s.heap, s.cache, calls2), win |-> s.win,
         lastCleanup |-> s.lastCleanup]

\* the fetch of a getLoadedModels call of the hook is answered and the cache
\* stores the list: during validation the operation settles; after it, the
\* list is the one kept for the suggestions
HookFetchDone ==
    /\ \/ hk.pc = "validating" /\ rt.pc = "running"
       \/ hk.pc = "suggesting"
    /\ calls[1].pc = "fetching"
    /\ LET s == HookFetched
           n == Len(hk.obs)
       IN  /\ now' = s.t
           /\ cache' = s.cache
           /\ calls' = s.calls
           /\ heap' = s.heap
           /\ win' = s.win
           /\ lastCleanup' = s.lastCleanup
           /\ rt' = IF hk.pc = "validating"
                    THEN Settled(rt, OperationOutcome(s.list, hk.model), s.t)
                    ELSE rt
           /\ hk' = IF hk.pc = "validating"
                    THEN [hk EXCEPT !.fetches = @ \cup {server.mode},
                                    !.obs[n].had = @ /\ ServerHas(hk.model),
                                    !.obs[n].saw = ArrIncludes(s.list, hk.model)]
                    ELSE [hk EXCEPT !.pc = "errorToast", !.available = s.list,
                                    !.availableFrom = "fetch",
                                    !.fetches = @ \cup {server.mode}]
    /\ UNCHANGED server

\* the backoff timer of retryWithBackoff fires
HookTimer ==
    /\ hk.pc = "validating"
    /\ rt.pc = "waiting"
    /\ now' = IF now < rt.due THEN rt.due ELSE now
    /\ rt' = TimerFired(rt)
    /\ UNCHANGED <<cacheVars, hk, server>>

\* retryWithBackoff returned: on failure the error is categorized and
\* getLoadedModels is called once more for the suggestions
HookClassify ==
    /\ hk.pc = "validating"
    /\ rt.pc \in {"done", "raised"}
    /\ LET failed == ~rt.result.success
           text == IF rt.result.error # "" THEN rt.result.error
                   ELSE "Validation operation failed"
           call == Begun(hk.url)
           hit == call.pc = "returned"
       IN  /\ hk' = IF rt.pc = "raised"
                    THEN [hk EXCEPT !.pc = "raised"]
                    ELSE IF failed
                    THEN [hk EXCEPT !.category = Categories[text],
                                    !.pc = IF hit THEN "errorToast" ELSE "suggesting",
                                    !.available = IF hit THEN heap[call.ret] ELSE <<>>,
                                    !.availableFrom = IF hit THEN "cache" ELSE ""]
                    ELSE [hk EXCEPT !.pc = "successToast", !.loaded = rt.result.result]
           /\ calls' = IF rt.pc = "done" /\ failed /\ ~hit
                       THEN [calls EXCEPT ![1] = call]
                       ELSE calls
    /\ lastCleanup' = NoCleanup
    /\ UNCHANGED <<now, cache, heap, win, rt, server>>

\* toastNotifier.error settled; the error outcome is written to output.options
AfterErrorToast(result) ==
    IF ToastRaises(result)
    THEN [hk EXCEPT !.pc = "raised"]
    ELSE [hk EXCEPT !.pc = "returned", !.writes = @ + 1,
                    !.outcome = [NoOutcome EXCEPT
                        !.status = "error", !.model = hk.model,
                        !.availableModels = hk.available,
                        !.similarModels = Suggestions[hk.model][hk.available],
                        !.errorCategory = hk.category.type,
                        !.severity = hk.category.severity,
                        !.canRetry = hk.category.canRetry,
                        !.autoFixAvailable = hk.category.autoFixAvailable]]

HookErrorToast(result) ==
    /\ hk.pc = "errorToast"
    /\ hk' = AfterErrorToast(result)
    /\ UNCHANGED <<now, cacheVars, rt, server>>

\* the cache statistics come from the hook's own cache instance
CacheAge(u) == IF u \in DOMAIN HookCache THEN now - HookCache[u].timestamp ELSE 0

PerformanceHint(loaded, cacheAge) ==
    IF Len(loaded) > 1 THEN "unload" ELSE IF cacheAge > 20000 THEN "old" ELSE ""

\* toastNotifier.success settled; the success outcome is written
AfterSuccessToast(result) ==
    IF ToastRaises(result)
    THEN [hk EXCEPT !.pc = "raised"]
    ELSE [hk EXCEPT !.pc = "returned", !.writes = @ + 1,
                    !.outcome = [NoOutcome EXCEPT
                        !.status = "success", !.model = hk.model,
                        !.availableModels = hk.loaded,
                        !.cacheInfo = [age |-> CacheAge(hk.url),
                                       valid |-> hk.url \in DOMAIN HookCache
                                                 /\ Unexpired(HookCache[hk.url], now),
                                       totalCacheEntries |-> MapSize(HookCache)],
                        !.performanceHint =
                            PerformanceHint(hk.loaded, CacheAge(hk.url))]]

HookSuccessToast(result) ==
    /\ hk.pc = "successToast"
    /\ hk' = AfterSuccessToast(result)
    /\ UNCHANGED <<now, cacheVars, rt, server>>

\* the server's state changes
ServerChange(srv) ==
    /\ srv # server
    /\ server' = srv
    /\ UNCHANGED <<now, cacheVars, rt, hk>>

IdleSteps == {14000, DEFAULT_TTL}

\* time passes between two requests
HookIdle(d) ==
    /\ hk.pc \in {"returned", "raised"}
    /\ now + d <= MaxTime
    /\ now' = now + d
    /\ hk' = [IdleHook EXCEPT !.requests = hk.requests]
    /\ UNCHANGED <<cacheVars, rt, server>>

\* the chat.params inputs that reach the validation
ValidInputs == {input \in HookInputs : KindOf(input) = "valid"}

\* the steps the hook takes by itself once called
HookStep ==
    \/ \E result \in ToastResults : HookProgressToast(result)
    \/ HookAttempt
    \/ HookFetchDone
    \/ HookTimer
    \/ HookClassify
    \/ \E result \in ToastResults : HookErrorToast(result)
    \/ \E result \in ToastResults : HookSuccessToast(result)

HookNext ==
    \/ \E input \in HookInputs, u \in URLs :
          \E raw \in RawURLs(u) : hk.requests < MaxRequests /\ HookRequest(input, raw)
    \/ HookStep
    \/ \E srv \in ServerStates : ServerChange(srv)
    \/ \E d \in IdleSteps : HookIdle(d)

\* the clock reaches the millisecond at which the entry of the request's base
\* URL expires, between two steps of the hook
ClockPassesExpiry ==
    /\ hk.pc = "validating"
    /\ hk.url \in DOMAIN cache
    /\ now - cache[hk.url].timestamp = cache[hk.url].ttl - 1
    /\ now' = now + 1
    /\ UNCHANGED <<cacheVars, rt, hk, server>>

\* a pause after which the third attempt of the next request finds the entry
\* stored by the first attempt of the last one in its last millisecond
ClockIdleSteps == IdleSteps \cup {DEFAULT_TTL - 2 * (HOOK_BASE_DELAY + 2 * HOOK_BASE_DELAY) - 1}

\* the requests for the default base URL that reach the validation, with the
\* clock moving between the steps of the hook
HookClockNext ==
    \/ \E input \in ValidInputs :
          hk.requests < MaxRequests
              /\ HookRequest(input, URLChars(DEFAULT_LLAMA_CPP_URL))
    \/ HookStep
    \/ ClockPassesExpiry
    \/ \E srv \in ServerStates : ServerChange(srv)
    \/ \E d \in ClockIdleSteps : HookIdle(d)

\* the hook called for the default base URL only
HookLiveNext ==
    \/ \E input \in HookInputs :
          \E raw \in RawURLs(DEFAULT_LLAMA_CPP_URL) :
              hk.requests < MaxLiveRequests /\ HookRequest(input, raw)
    \/ HookStep
    \/ \E srv \in ServerStates : ServerChange(srv)
    \/ \E d \in IdleSteps : HookIdle(d)

\* the same requests, with the answers of client.tui.showToast kept
HookToastNext ==
    \/ \E input \in HookInputs :
          \E raw \in RawURLs(DEFAULT_LLAMA_CPP_URL) :
              /\ hk.requests < MaxLiveRequests
              /\ HookRequest(input, raw)
              /\ toasts' = <<>>
    \/ \E result \in ToastResults : HookProgressToast(result) /\ toasts' = Append(toasts, result)
    \/ \E result \in ToastResults : HookErrorToast(result) /\ toasts' = Append(toasts, result)
    \/ \E result \in ToastResults : HookSuccessToast(result) /\ toasts' = Append(toasts, result)
    \/ HookAttempt /\ UNCHANGED toasts
    \/ HookFetchDone /\ UNCHANGED toasts
    \/ HookTimer /\ UNCHANGED toasts
    \/ HookClassify /\ UNCHANGED toasts
    \/ \E srv \in ServerStates : ServerChange(srv) /\ UNCHANGED toasts
    \/ \E d \in IdleSteps : HookIdle(d) /\ UNCHANGED toasts

----------------------------------------------------------------------------

(* autoDetectLlamaCpp and checkLlamaCppHealth *)

\* (mutant) the ports in another order
CommonPorts_Swapped == <<8080, 1234, 11434>>

\* const commonPorts = [1234, 8080, 11434]
CommonPorts == <<1234, 8080, 11434>>

\* how GET /v1/models on a port ends: a 200, a refused connection, no answer
\* before AbortSignal.timeout, or a 500
PortModes == {"ok", "refused", "timeout", "http500"}

\* checkLlamaCppHealth: response.ok, and false when fetch throws
CheckLlamaCppHealth(mode) ==
    CASE mode = "ok" -> TRUE
      [] mode = "http500" -> FALSE
      [] OTHER -> FALSE

Digit(d) ==
    CASE d = 0 -> "0" [] d = 1 -> "1" [] d = 2 -> "2" [] d = 3 -> "3" [] d = 4 -> "4"
      [] d = 5 -> "5" [] d = 6 -> "6" [] d = 7 -> "7" [] d = 8 -> "8" [] d = 9 -> "9"

\* String(port), as the template literal converts it
RECURSIVE PortChars(_)
PortChars(port) ==
    IF port < 10 THEN <<Digit(port)>>
    ELSE Append(PortChars(port \div 10), Digit(port % 10))

LoopbackPrefix == <<"h", "t", "t", "p", ":", "/", "/", "1", "2", "7", ".", "0", ".", "0", ".", "1", ":">>

\* `http://127.0.0.1:${port}`
PortBaseURL(port) == LoopbackPrefix \o PortChars(port)

NoDetection == [null |-> FALSE, url |-> <<>>]

\* no call of autoDetectLlamaCpp is running; every port refuses connections
IdleDetect ==
    [pc |-> "idle", index |-> 0, probes |-> <<>>, outstanding |-> {},
     answers |-> <<>>, result |-> NoDetection, runs |-> 0,
     ports |-> [i \in 1..3 |-> "refused"]]

\* autoDetectLlamaCpp is called: the loop starts and the first health check
\* sends its request
DetectCall ==
    /\ ad.pc \in {"idle", "returned"}
    /\ ad.runs < MaxDetects
    /\ ad' = [ad EXCEPT !.pc = "probing", !.index = 1,
                        !.probes = <<CommonPorts[1]>>,
                        !.outstanding = {CommonPorts[1]},
                        !.answers = <<>>, !.result = NoDetection,
                        !.runs = @ + 1]

\* the awaited health check settles: a healthy port is returned, otherwise
\* the loop goes on to the next port, and returns null after the last
ProbeAnswered ==
    /\ ad.pc = "probing"
    /\ LET port == CommonPorts[ad.index]
           mode == ad.ports[ad.index]
           isHealthy == CheckLlamaCppHealth(mode)
           settled == [ad EXCEPT !.answers = Append(@, mode),
                                 !.outstanding = @ \ {port}]
       IN  ad' = IF isHealthy
                 THEN [settled EXCEPT !.pc = "returned",
                                      !.result = [null |-> FALSE, url |-> PortBaseURL(port)]]
                 ELSE IF ad.index < Len(CommonPorts)
                 THEN [settled EXCEPT !.index = @ + 1,
                                      !.probes = Append(@, CommonPorts[ad.index + 1]),
                                      !.outstanding = @ \cup {CommonPorts[ad.index + 1]}]
                 ELSE [settled EXCEPT !.pc = "returned",
                                      !.result = [null |-> TRUE, url |-> <<>>]]

\* a server starts or stops on one of the ports
PortChange(i, mode) ==
    /\ ad.ports[i] # mode
    /\ ad' = [ad EXCEPT !.ports[i] = mode]

DetectNext ==
    \/ DetectCall
    \/ ProbeAnswered
    \/ \E i \in 1..3, mode \in PortModes : PortChange(i, mode)

(* enhanceConfig: the config hook *)

Digits == <<"0", "1", "2", "3", "4", "5", "6", "7", "8", "9">>

\* the characters of /[a-zA-Z0-9_-]/
SafeChars ==
    {UpperCase[i] : i \in 1..Len(UpperCase)} \cup {LowerCase[i] : i \in 1..Len(LowerCase)}
    \cup {Digits[i] : i \in 1..Len(Digits)} \cup {"_", "-"}

\* /^[a-zA-Z0-9_-]+$/.test(modelKey)
IsSafeKey(id) == Len(id) > 0 /\ \A i \in 1..Len(id) : id[i] \in SafeChars

\* model.id.replace(/[^a-zA-Z0-9_-]/g, "_")
SanitizeKey(id) == [i \in 1..Len(id) |-> IF id[i] \in SafeChars THEN id[i] ELSE "_"]

\* the key a discovered model is stored under
ModelKey(id) == IF IsSafeKey(id) THEN id ELSE SanitizeKey(id)

\* categorizeModel
CategorizeModel(id) ==
    LET lowerId == ToLowerCase(id)
    IN  IF StrIncludes(lowerId, <<"e", "m", "b", "e", "d", "d", "i", "n", "g">>) \/ StrIncludes(lowerId, <<"e", "m", "b", "e", "d">>)
        THEN "embedding"
        ELSE IF \/ StrIncludes(lowerId, <<"g", "p", "t">>) \/ StrIncludes(lowerId, <<"l", "l", "a", "m", "a">>)
                \/ StrIncludes(lowerId, <<"c", "l", "a", "u", "d", "e">>) \/ StrIncludes(lowerId, <<"q", "w", "e", "n">>)
                \/ StrIncludes(lowerId, <<"m", "i", "s", "t", "r", "a", "l">>) \/ StrIncludes(lowerId, <<"g", "e", "m", "m", "a">>)
                \/ StrIncludes(lowerId, <<"p", "h", "i">>) \/ StrIncludes(lowerId, <<"f", "a", "l", "c", "o", "n">>)
        THEN "chat"
        ELSE "unknown"

\* a model object of the user's configuration, and the one built for a
\* discovered model
UserModel(key) == [id |-> key, by |-> "user", type |-> ""]
ModelConfig(id) == [id |-> id, by |-> "plugin", type |-> CategorizeModel(id)]

\* existingModels[key]: an own property holding an object is truthy
Configured(existingModels, key) == key \in DOMAIN existingModels

\* (mutant) the test of the key alone
NotConfigured_KeyOnly(existingModels, id) == ~Configured(existingModels, ModelKey(id))

\* !existingModels[modelKey] && !existingModels[model.id]
NotConfigured(existingModels, id) ==
    /\ ~Configured(existingModels, ModelKey(id))
    /\ ~Configured(existingModels, id)

\* {...a, ...b}
Spread(a, b) ==
    [k \in DOMAIN a \cup DOMAIN b |-> IF k \in DOMAIN b THEN b[k] ELSE a[k]]

\* the loop over the discovered models: discoveredModels after models[1..n]
RECURSIVE DiscoveredModels(_, _, _)
DiscoveredModels(existingModels, models, n) ==
    IF n = 0 THEN << >>
    ELSE LET sofar == DiscoveredModels(existingModels, models, n - 1)
             id == models[n]
         IN  IF NotConfigured(existingModels, id)
             THEN Spread(sofar, [k \in {ModelKey(id)} |-> ModelConfig(id)])
             ELSE sofar

\* the models object after the merge
MergedModels(existingModels, models) ==
    LET discoveredModels == DiscoveredModels(existingModels, models, Len(models))
    IN  IF DOMAIN discoveredModels # {}
        THEN Spread(existingModels, discoveredModels)
        ELSE existingModels

NewModel == <<"n", "e", "w", "-", "m", "o", "d", "e", "l">>
QwenSlash == <<"q", "w", "e", "n", "/", "q", "w", "e", "n", "3">>
QwenUnder == <<"q", "w", "e", "n", "_", "q", "w", "e", "n", "3">>
ExistingModel == <<"e", "x", "i", "s", "t", "i", "n", "g", "-", "m", "o", "d", "e", "l">>
EmbedDot == <<"e", "m", "b", "e", "d", ".", "v", "1">>

\* the models a user has configured for the provider
KeySets == {{}, {ExistingModel}, {ExistingModel, QwenSlash}, {QwenUnder}, {NewModel, EmbedDot}}
ExistingConfigs == {[k \in keys |-> UserModel(k)] : keys \in KeySets}

\* what GET /v1/models lists
DiscoverLists ==
    {<<>>, <<NewModel>>, <<QwenSlash>>, <<QwenUnder, QwenSlash>>, <<NewModel, EmbedDot>>,
     <<EmbedDot, QwenSlash>>}

\* what the server lists when the warm-up asks
WarmLists == {<<>>, <<NewModel>>}

\* the ways a port answers that this hook tells apart (a timeout is a failing
\* fetch, as a refused connection is)
ConfigPortModes == {"ok", "refused", "http500"}

NoEntry == [set |-> FALSE, models |-> <<>>, timestamp |-> 0]

IdleConfig ==
    [pc |-> "idle", runs |-> 0, provider |-> FALSE, created |-> FALSE, models |-> << >>,
     option |-> <<>>, baseURL |-> <<>>, before |-> << >>, listed |-> <<>>,
     warm |-> NoEntry]

\* the port whose server a base URL names
PortOf(baseURL) == CHOOSE i \in 1..Len(CommonPorts) : PortBaseURL(CommonPorts[i]) = baseURL

\* enhanceConfig is called with a config that has the provider: its baseURL
\* is normalized and the health check is sent
ConfigCallConfigured(existingModels, raw) ==
    /\ cf.pc \in {"idle", "returned"}
    /\ cf.runs < MaxConfigCalls
    /\ cf' = [IdleConfig EXCEPT
                 !.pc = "health", !.runs = cf.runs + 1, !.provider = TRUE,
                 !.models = existingModels, !.before = existingModels,
                 !.option = raw, !.warm = cf.warm,
                 !.baseURL = NormalizeBaseURL(IF raw = <<>>
                                              THEN URLChars(DEFAULT_LLAMA_CPP_URL) ELSE raw)]
    /\ UNCHANGED ad

\* enhanceConfig is called with a config without the provider:
\* autoDetectLlamaCpp starts
ConfigCallUnconfigured ==
    /\ cf.pc \in {"idle", "returned"}
    /\ cf.runs < MaxConfigCalls
    /\ cf' = [IdleConfig EXCEPT !.pc = "detecting", !.runs = cf.runs + 1, !.warm = cf.warm]
    /\ DetectCall

\* autoDetectLlamaCpp returned and its frame is gone: without a server the
\* hook returns, otherwise the provider is created with an empty models object
ConfigDetected ==
    /\ cf.pc = "detecting"
    /\ ad.pc = "returned"
    /\ cf' = IF ad.result.null
             THEN [cf EXCEPT !.pc = "returned"]
             ELSE [cf EXCEPT !.pc = "health", !.provider = TRUE, !.created = TRUE,
                             !.baseURL = ad.result.url,
                             !.option = ad.result.url \o V1Suffix]
    /\ ad' = [IdleDetect EXCEPT !.runs = ad.runs, !.ports = ad.ports]

\* checkLlamaCppHealth(baseURL) settled
ConfigHealth ==
    /\ cf.pc = "health"
    /\ cf' = IF CheckLlamaCppHealth(ad.ports[PortOf(cf.baseURL)])
             THEN [cf EXCEPT !.pc = "discovering"]
             ELSE [cf EXCEPT !.pc = "returned"]
    /\ UNCHANGED ad

\* discoverLlamaCppModels: a response that is not ok gives [], a failing
\* fetch throws
DiscoverThrows(mode) == mode \in {"refused", "timeout"}
DiscoverLlamaCppModels(mode, list) == IF mode = "ok" THEN list ELSE <<>>

\* discoverLlamaCppModels(baseURL) settled: the discovered models are merged
\* into the provider's models and the cache warm-up starts
ConfigDiscovered(list) ==
    /\ cf.pc = "discovering"
    /\ LET mode == ad.ports[PortOf(cf.baseURL)]
           models == DiscoverLlamaCppModels(mode, list)
       IN  cf' = IF DiscoverThrows(mode)
                 THEN [cf EXCEPT !.pc = "returned"]
                 ELSE [cf EXCEPT !.pc = "warming", !.listed = models,
                                 !.models = IF Len(models) > 0
                                            THEN MergedModels(cf.models, models)
                                            ELSE cf.models]
    /\ UNCHANGED ad

\* the warm-up getModels on the module's own cache settled; a failure is
\* swallowed
ConfigWarmed(list) ==
    /\ cf.pc = "warming"
    /\ LET mode == ad.ports[PortOf(cf.baseURL)]
           hit == cf.warm.set /\ Unexpired([timestamp |-> cf.warm.timestamp, ttl |-> DEFAULT_TTL], now)
       IN  cf' = IF hit \/ DiscoverThrows(mode)
                 THEN [cf EXCEPT !.pc = "returned"]
                 ELSE [cf EXCEPT !.pc = "returned",
                                 !.warm = [set |-> TRUE, timestamp |-> now,
                                           models |-> DiscoverLlamaCppModels(mode, list)]]
    /\ UNCHANGED ad

ConfigNext ==
    \/ \E existingModels \in ExistingConfigs :
          \E raw \in RawURLs(DEFAULT_LLAMA_CPP_URL) : ConfigCallConfigured(existingModels, raw)
    \/ ConfigCallUnconfigured
    \/ ProbeAnswered /\ UNCHANGED cf
    \/ ConfigDetected
    \/ ConfigHealth
    \/ \E list \in DiscoverLists : ConfigDiscovered(list)
    \/ \E list \in WarmLists : ConfigWarmed(list)
    \/ \E i \in 1..3, mode \in ConfigPortModes : PortChange(i, mode) /\ UNCHANGED cf

(* createConfigHook: enhanceConfig raced against a timer *)

\* const timeoutMs = 5000
timeoutMs == 5000

\* how long a request that is answered late takes, in ms: less than the
\* AbortSignal.timeout of the requests of enhanceConfig
SlowAnswer == 2600
AnswerTimes == {0, SlowAnswer}

\* no config hook call is running
IdleRace == [pc |-> "idle", due |-> 0, sent |-> 0]

\* `Promise.race([discoveryPromise, new Promise(... setTimeout ...)])` starts
RaceStarts ==
    /\ race' = [pc |-> "racing", due |-> now + timeoutMs, sent |-> now]
    /\ UNCHANGED now

\* the hook is called with a config that has the provider
ConfigHookConfigured(existingModels, raw) ==
    /\ ConfigCallConfigured(existingModels, raw)
    /\ RaceStarts

\* the hook is called with a config without the provider: when the quick
\* check of the default port is answered ok the hook creates the provider
\* itself, with no models, before it calls enhanceConfig
ConfigHookUnconfigured ==
    /\ IF CheckLlamaCppHealth(ad.ports[PortOf(URLChars(DEFAULT_LLAMA_CPP_URL))])
       THEN ConfigCallConfigured(EmptyMap, URLChars(DEFAULT_LLAMA_CPP_URL) \o V1Suffix)
       ELSE ConfigCallUnconfigured
    /\ RaceStarts

\* the request enhanceConfig awaits is answered d ms after it was sent; while
\* the race is on, that is before the timer is due
Settles(d) ==
    /\ race.sent + d >= now
    /\ race.pc = "racing" => race.sent + d <= race.due
    /\ now' = race.sent + d

\* enhanceConfig goes on after an await; when it returns during the race, the
\* hook's promise resolves
ConfigHookStep(d) ==
    /\ race.pc \in {"racing", "resolved"}
    /\ \/ cf.pc = "detecting" /\ ProbeAnswered /\ UNCHANGED cf
       \/ ConfigHealth
       \/ \E list \in DiscoverLists : ConfigDiscovered(list)
       \/ \E list \in WarmLists : ConfigWarmed(list)
    /\ Settles(d)
    /\ race' = [race EXCEPT !.sent = now',
                        !.pc = IF cf'.pc = "returned" THEN "resolved" ELSE @]

\* autoDetectLlamaCpp returned: enhanceConfig goes on in the same turn of the
\* event loop
ConfigHookDetected ==
    /\ race.pc \in {"racing", "resolved"}
    /\ ConfigDetected
    /\ race' = [race EXCEPT !.pc = IF cf'.pc = "returned" THEN "resolved" ELSE @]
    /\ UNCHANGED now

\* the timer of the race fires while enhanceConfig awaits an answer: the
\* hook's promise resolves, enhanceConfig is not stopped
RaceTimer ==
    /\ race.pc = "racing"
    /\ cf.pc # "returned"
    /\ ~(cf.pc = "detecting" /\ ad.pc = "returned")
    /\ \E d \in AnswerTimes : race.sent + d >= race.due
    /\ now' = race.due
    /\ race' = [race EXCEPT !.pc = "resolved"]
    /\ UNCHANGED <<cf, ad>>

ConfigHookNext ==
    \/ \E existingModels \in ExistingConfigs :
          \E raw \in RawURLs(DEFAULT_LLAMA_CPP_URL) : ConfigHookConfigured(existingModels, raw)
    \/ ConfigHookUnconfigured
    \/ \E d \in AnswerTimes : ConfigHookStep(d)
    \/ ConfigHookDetected
    \/ RaceTimer
    \/ \E i \in 1..3, mode \in ConfigPortModes :
          PortChange(i, mode) /\ UNCHANGED <<now, cf, race>>

----------------------------------------------------------------------------
(* ModelLoadingMonitor *)

MaxStarts == 2        \* calls of startMonitoring in one behaviour

POLL_INTERVAL == 2000
LOADING_TIMEOUT == 300000

\* the model ids that are monitored
MonitoredIds == {"gpt-4", "qwen3"}

\* the callers of startMonitoring, stopMonitoring and cleanup, and the server,
\* act at these moments of the clock
CallInstants == {0, POLL_INTERVAL, LOADING_TIMEOUT - POLL_INTERVAL, LOADING_TIMEOUT}

\* a field that is undefined
Undefined == -1
NoError == "undefined"
TimeoutError == "Loading timeout after 5 minutes"

\* progress is a fraction: p percent is held as p * LOADING_TIMEOUT
Pct(p) == p * LOADING_TIMEOUT

\* `this.loadingStates.get(modelId) || { status: 'not_loaded' }`
NotLoaded ==
    [status |-> "not_loaded", startTime |-> Undefined, progress |-> Undefined,
     eta |-> Undefined, error |-> NoError]
CurrentState(m, id) ==
    IF id \in DOMAIN m.loadingStates THEN m.loadingStates[id] ELSE NotLoaded

\* the timers of the event loop that are live: intervals until cleared,
\* timeouts until they fire
TimerIds == 1..(2 * MaxStarts)
NewTimer(timers) ==
    CHOOSE i \in TimerIds : /\ \A t \in timers : t.id # i
                            /\ \A j \in TimerIds : (\A t \in timers : t.id # j) => i <= j

IdleMonitor ==
    [loadingStates |-> EmptyMap, pollingIntervals |-> EmptyMap, timers |-> {},
     served |-> {}, started |-> 0]

\* stopMonitoring: a registered interval is cleared and forgotten
StopMonitoringOf(m, id) ==
    IF id \in DOMAIN m.pollingIntervals
    THEN [m EXCEPT !.timers = {t \in @ : t.id # m.pollingIntervals[id]},
                   !.pollingIntervals = MapDelete(@, {id})]
    ELSE m

\* updateState: the current state spread under status, progress, eta, error
UpdateState(m, id, status, progress, eta, error) ==
    [m EXCEPT !.loadingStates =
        MapSet(@, id, [CurrentState(m, id) EXCEPT !.status = status,
                                                   !.progress = progress,
                                                   !.eta = eta,
                                                   !.error = error])]

\* (mutant) a startMonitoring without its guard
AlreadyMonitoring_Never(currentState) == FALSE

\* the guard of startMonitoring
AlreadyMonitoring(currentState) == currentState.status = "loading"

\* startMonitoring at time t
StartMonitoringAt(m, id, t) ==
    IF AlreadyMonitoring(CurrentState(m, id))
    THEN m
    ELSE LET m1 == [m EXCEPT !.loadingStates =
                       MapSet(@, id, [status |-> "loading", startTime |-> t,
                                      progress |-> 0, eta |-> Undefined,
                                      error |-> NoError])]
             m2 == StopMonitoringOf(m1, id)
             i == NewTimer(m2.timers)
             m3 == [m2 EXCEPT !.timers = @ \cup {[id |-> i, kind |-> "interval",
                                                  model |-> id,
                                                  due |-> t + POLL_INTERVAL]},
                              !.pollingIntervals = MapSet(@, id, i)]
             j == NewTimer(m3.timers)
         IN  [m3 EXCEPT !.timers = @ \cup {[id |-> j, kind |-> "timeout",
                                            model |-> id,
                                            due |-> t + LOADING_TIMEOUT]}]

\* the list the interval's callback hands to checkLoadingProgress:
\* `async () => []`, whatever the server holds
PolledModels(served) == << >>

\* `Date.now() - (state.startTime || Date.now())`; Date.now() is never 0
Elapsed(state, t) == IF state.startTime = Undefined THEN 0 ELSE t - state.startTime

\* Math.min(90, (elapsed / LOADING_TIMEOUT) * 100)
EstimatedProgress(elapsed) == Min2(Pct(90), elapsed * 100)

\* checkLoadingProgress at time t; its one await is of a promise that is
\* already resolved, so nothing else runs in between
CheckLoadingProgress(m, id, models, t) ==
    LET isLoaded == \E k \in 1..Len(models) : models[k] = id
        state == CurrentState(m, id)
    IN  IF id \notin DOMAIN m.loadingStates \/ state.status # "loading"
        THEN StopMonitoringOf(m, id)
        ELSE IF isLoaded
        THEN StopMonitoringOf(UpdateState(m, id, "loaded", Pct(100), 0, NoError), id)
        ELSE UpdateState(m, id, "loading", EstimatedProgress(Elapsed(state, t)),
                         Max2(0, LOADING_TIMEOUT - Elapsed(state, t)), NoError)

\* (mutant) a timeout callback that leaves the state alone
LoadingTimeout_Ignored(m, id) == m

\* the callback of the timeout set by startMonitoring
LoadingTimeout(m, id) ==
    IF id \in DOMAIN m.loadingStates /\ m.loadingStates[id].status = "loading"
    THEN UpdateState(m, id, "error", Undefined, Undefined, TimeoutError)
    ELSE m

\* the event loop runs the live timer that is due first, at its due time
DueFirst(t) == t \in mon.timers /\ \A o \in mon.timers : t.due <= o.due

StartMonitoring(id) ==
    /\ now \in CallInstants
    /\ mon.started < MaxStarts
    /\ mon' = [StartMonitoringAt(mon, id, now) EXCEPT !.started = @ + 1]
    /\ UNCHANGED now

StopMonitoring(id) ==
    /\ now \in CallInstants
    /\ mon' = StopMonitoringOf(mon, id)
    /\ UNCHANGED now

\* an interval fires: its callback runs and the interval, if it is still
\* live, is due again one period later
PollTick(t) ==
    /\ DueFirst(t)
    /\ t.kind = "interval"
    /\ now' = t.due
    /\ LET m1 == CheckLoadingProgress(mon, t.model, PolledModels(mon.served), t.due)
       IN  mon' = [m1 EXCEPT !.timers =
                      {IF o.id = t.id THEN [o EXCEPT !.due = @ + POLL_INTERVAL] ELSE o
                         : o \in @}]

\* a timeout fires, once
TimeoutFired(t) ==
    /\ DueFirst(t)
    /\ t.kind = "timeout"
    /\ now' = t.due
    /\ mon' = [LoadingTimeout(mon, t.model) EXCEPT !.timers = @ \ {t}]

\* cleanup: every registered interval is cleared, every state forgotten
MonitorCleanup ==
    /\ now \in CallInstants
    /\ mon' = [mon EXCEPT
                 !.timers = {t \in @ : \A id \in DOMAIN mon.pollingIntervals :
                                          t.id # mon.pollingIntervals[id]},
                 !.pollingIntervals = EmptyMap,
                 !.loadingStates = EmptyMap]
    /\ UNCHANGED now

\* the server finishes loading a model
ServerLoads(id) ==
    /\ now \in CallInstants
    /\ id \notin mon.served
    /\ mon' = [mon EXCEPT !.served = @ \cup {id}]
    /\ UNCHANGED now

MonitorTimers ==
    \/ \E t \in mon.timers : PollTick(t)
    \/ \E t \in mon.timers : TimeoutFired(t)

\* monitoring left to run: started, stopped, and the timers
MonitorLiveNext ==
    \/ \E id \in MonitoredIds : StartMonitoring(id)
    \/ \E id \in MonitoredIds : StopMonitoring(id)
    \/ \E id \in MonitoredIds : ServerLoads(id)
    \/ MonitorTimers

MonitorNext ==
    \/ MonitorLiveNext
    \/ MonitorCleanup

(* ModelStatusCache.getStats *)

NoStats == [taken |-> FALSE, at |-> 0, last |-> << >>, refreshed |-> {},
            compared |-> {}, elapsed |-> 0]

\* (mutant) the stored timestamp reported as the age
StatsEntries_Timestamp ==
    [u \in DOMAIN cache |->
        [age |-> cache[u].timestamp,
         modelCount |-> Len(heap[cache[u].models]),
         ttl |-> cache[u].ttl]]

\* the entries of getStats(): per baseURL the age, the model count and the ttl
StatsEntries ==
    [u \in DOMAIN cache |->
        [age |-> now - cache[u].timestamp,
         modelCount |-> Len(heap[cache[u].models]),
         ttl |-> cache[u].ttl]]

\* getStats() is called; history: the keys it reports that the call before
\* reported too and that were not stored anew since, and the time since then
GetStats ==
    /\ stats' = [taken |-> TRUE, at |-> now, last |-> StatsEntries, refreshed |-> {},
                 compared |-> IF stats.taken
                              THEN (DOMAIN StatsEntries \cap DOMAIN stats.last) \ stats.refreshed
                              ELSE {},
                 elapsed |-> IF stats.taken THEN now - stats.at ELSE 0]
    /\ UNCHANGED <<now, cacheVars>>

\* the keys whose entry a step stored anew
Stored ==
    {u \in DOMAIN cache' : u \notin DOMAIN cache \/ cache'[u].timestamp # cache[u].timestamp
                                                  \/ cache'[u].models # cache[u].models}

\* the cache of one base URL, with getStats() called now and then
StatsNext ==
    \/ /\ \/ GetModelsBegin(1, DEFAULT_LLAMA_CPP_URL)
          \/ \E l \in FetchLists : GetModelsFetched(1, l)
          \/ GetModelsFailed(1)
          \/ Release(1)
          \/ Invalidate(DEFAULT_LLAMA_CPP_URL)
          \/ ForceRefreshBegin(1, DEFAULT_LLAMA_CPP_URL)
          \/ \E t \in TTLChoices : SetTTL(DEFAULT_LLAMA_CPP_URL, t)
          \/ \E d \in TickSteps : Tick(d)
       /\ stats' = [stats EXCEPT !.refreshed = @ \cup Stored]
    \/ GetStats

\* what is remembered of an invalidation of base URL u made now: its time and
\* the models array of the entry it removed (0 when there was none)
NotInvalidated == [at |-> -1, models |-> 0]
Overtaken(u) == [at |-> now, models |-> IF u \in DOMAIN cache THEN cache[u].models ELSE 0]

----------------------------------------------------------------------------
----------------------------------------------------------------------------
----------------------------------------------------------------------------
\* n other base URLs were cached at time 0
Prefilled(n) == [k \in {100 + i : i \in 1..n} |-> Entry(k, 0, DEFAULT_TTL)]

\* nothing is running at time 0
AtRest ==
    /\ now = 0
    /\ calls = [c \in CallIds |-> IdleCall]
    /\ lastCleanup = NoCleanup
    /\ rt = IdleRetry
    /\ hk = IdleHook
    /\ server = [mode |-> "ok", models |-> <<>>]
    /\ fn = IdleFn
    /\ toasts = <<>>
    /\ cf = IdleConfig
    /\ mon = IdleMonitor
    /\ stats = NoStats
    /\ inval = [c \in CallIds |-> NotInvalidated]
    /\ race = IdleRace

Init ==
    /\ AtRest
    /\ ad = IdleDetect
    /\ \E n \in {0, MAX_CACHE_SIZE} :
          /\ cache = Prefilled(n)
          /\ heap = [r \in DOMAIN Prefilled(n) |-> <<"gpt-4">>]
    /\ win = [u \in URLs |-> [t |-> -1, ttl |-> 0]]

\* the cache is empty, or holds the list a call that has ended fetched for the
\* default base URL at time 0
ConcurrentInit ==
    /\ AtRest
    /\ ad = IdleDetect
    /\ \E warm \in BOOLEAN :
          /\ cache = IF warm
                     THEN [u \in {DEFAULT_LLAMA_CPP_URL} |-> Entry(1, 0, DEFAULT_TTL)]
                     ELSE EmptyMap
          /\ heap = [r \in (IF warm THEN {1} ELSE {}) |-> <<"gpt-4">>]
          /\ win = [u \in URLs |->
                       IF warm /\ u = DEFAULT_LLAMA_CPP_URL
                       THEN [t |-> 0, ttl |-> DEFAULT_TTL]
                       ELSE [t |-> -1, ttl |-> 0]]

NoneInFlight == \A c \in CallIds : calls[c].pc = "idle"

\* one caller at a time: each call is awaited before the next is made
CacheNext ==
    \/ \E u \in URLs : GetModelsBegin(1, u)
    \/ \E l \in FetchLists : GetModelsFetched(1, l)
    \/ GetModelsFailed(1)
    \/ Release(1)
    \/ MutateReturned(1)
    \/ \E u \in URLs : Invalidate(u)
    \/ InvalidateAll
    \/ \E u \in URLs : ForceRefreshBegin(1, u)
    \/ \E u \in URLs, t \in TTLChoices : SetTTL(u, t)
    \/ \E d \in TickSteps : Tick(d)

Next == CacheNext /\ UNCHANGED <<rt, hk, server, auxVars>>

\* the server of the default base URL is up and lists nothing yet; both
\* caches are empty
WarmInit ==
    /\ AtRest
    /\ ad = [IdleDetect EXCEPT !.ports[PortOf(URLChars(DEFAULT_LLAMA_CPP_URL))] = "ok"]
    /\ cache = EmptyMap
    /\ heap = EmptyMap
    /\ win = [u \in URLs |-> [t |-> -1, ttl |-> 0]]

\* the ids the server lists, as the config hook reads them
ListedIds(models) == [i \in 1..Len(models) |-> Chars(models[i])]

\* the server of the default base URL changes: the config hook and the
\* chat.params hook both see it
WarmServerChange(srv) ==
    /\ ServerChange(srv)
    /\ ad' = [ad EXCEPT !.ports[PortOf(URLChars(DEFAULT_LLAMA_CPP_URL))] = srv.mode]
    /\ UNCHANGED cf

\* the config hook and the chat.params hook of one plugin instance, on the
\* provider's default base URL written in any of its forms
WarmNext ==
    \/ /\ \/ \E raw \in RawURLs(DEFAULT_LLAMA_CPP_URL) : ConfigCallConfigured(EmptyMap, raw)
          \/ ConfigHealth
          \/ ConfigDiscovered(ListedIds(server.models))
          \/ ConfigWarmed(ListedIds(server.models))
       /\ UNCHANGED <<now, cacheVars, rt, hk, server>>
    \/ /\ \/ \E input \in ValidInputs :
                \E raw \in RawURLs(DEFAULT_LLAMA_CPP_URL) :
                    hk.requests < MaxLiveRequests /\ HookRequest(input, raw)
          \/ HookStep
          \/ \E d \in IdleSteps : HookIdle(d)
       /\ UNCHANGED <<cf, ad>>
    \/ \E srv \in ServerStates : WarmServerChange(srv)

\* several callers at once on the default base URL, each making one call: a
\* call may begin while others await their fetch, and the fetches settle in
\* any order
ConcurrentNext ==
    \/ \E c \in CallIds : GetModelsBegin(c, DEFAULT_LLAMA_CPP_URL)
    \/ \E c \in CallIds, l \in FetchLists : GetModelsFetched(c, l)
    \/ \E c \in CallIds : GetModelsFailed(c)
    \/ Invalidate(DEFAULT_LLAMA_CPP_URL)
    \/ InvalidateAll
    \/ \E t \in TTLChoices : SetTTL(DEFAULT_LLAMA_CPP_URL, t)
    \/ \E d \in TickSteps : Tick(d)

\* the same callers, with the invalidations that overtake an awaiting call
\* kept as history
RaceNext ==
    \/ /\ \E c \in CallIds : GetModelsBegin(c, DEFAULT_LLAMA_CPP_URL)
       /\ inval' = [c \in CallIds |->
                       IF calls[c].pc = "idle" /\ calls'[c].pc # "idle"
                       THEN NotInvalidated ELSE inval[c]]
    \/ /\ \/ \E c \in CallIds, l \in FetchLists : GetModelsFetched(c, l)
          \/ \E c \in CallIds : GetModelsFailed(c)
          \/ \E t \in TTLChoices : SetTTL(DEFAULT_LLAMA_CPP_URL, t)
          \/ \E d \in TickSteps : Tick(d)
       /\ UNCHANGED inval
    \/ /\ \/ Invalidate(DEFAULT_LLAMA_CPP_URL)
          \/ InvalidateAll
       /\ inval' = [c \in CallIds |->
                       IF calls[c].pc = "fetching" THEN Overtaken(calls[c].url) ELSE inval[c]]

Spec == Init /\ [][Next]_vars

SpecRetry == Init /\ [][RetryNext /\ UNCHANGED <<hk, server, auxVars>>]_vars

\* the calls of pure functions start from the empty cache
PureInit == Init /\ cache = EmptyMap

SpecClassify == PureInit /\ [][ClassifyNext]_vars

SpecRank == PureInit /\ [][RankNext]_vars

SpecConcurrent ==
    ConcurrentInit /\ [][ConcurrentNext /\ UNCHANGED <<rt, hk, server, auxVars>>]_vars

SpecRace ==
    ConcurrentInit /\ [][RaceNext /\ UNCHANGED <<rt, hk, server, fn, ad, toasts, cf, mon, stats, race>>]_vars

SpecStats ==
    PureInit /\ [][StatsNext /\ UNCHANGED <<rt, hk, server, fn, ad, toasts, cf, mon, inval, race>>]_vars

SpecNormalize == PureInit /\ [][NormalizeNext]_vars

monitorRest == <<cacheVars, rt, hk, server, fn, ad, toasts, cf, stats, inval, race>>

SpecMonitor == PureInit /\ [][MonitorNext /\ UNCHANGED monitorRest]_vars

\* every live timer fires in the end
SpecMonitorLive ==
    /\ PureInit
    /\ [][MonitorLiveNext /\ UNCHANGED monitorRest]_vars
    /\ WF_vars(MonitorTimers /\ UNCHANGED monitorRest)

\* the config hook, while servers come and go on the three ports
SpecConfig ==
    PureInit /\ [][ConfigNext /\ UNCHANGED <<now, cacheVars, rt, hk, server, fn, toasts, mon, stats, inval, race>>]_vars

\* the config hook: enhanceConfig raced against the timer
SpecConfigHook ==
    PureInit /\ [][ConfigHookNext /\ UNCHANGED <<cacheVars, rt, hk, server, fn, toasts, mon, stats, inval>>]_vars

\* the config hook's warm-up followed by chat.params requests
SpecWarm ==
    WarmInit /\ [][WarmNext /\ UNCHANGED <<fn, toasts, mon, stats, inval, race>>]_vars

\* auto-detection alone, while servers come and go on the three ports
SpecDetect ==
    PureInit /\ [][DetectNext /\ UNCHANGED <<now, cacheVars, rt, hk, server, fn, toasts, cf, mon, stats, inval, race>>]_vars

SpecHook == Init /\ [][HookNext /\ UNCHANGED auxVars]_vars

SpecHookClock == PureInit /\ [][HookClockNext /\ UNCHANGED auxVars]_vars

\* the hook, with the answers of client.tui.showToast kept
SpecToast == Init /\ [][HookToastNext /\ UNCHANGED pureVars]_vars

\* the hook, with every step it takes by itself eventually taken: fetches are
\* answered, timers fire, the host's showToast settles
SpecHookLive ==
    Init /\ [][HookLiveNext /\ UNCHANGED auxVars]_vars /\ WF_vars(HookStep /\ UNCHANGED auxVars)

----------------------------------------------------------------------------
(* Claims about the cache *)

\* C1: a getModels call made while a successful fetch for its baseURL is less
\* than ttl old (and the key was not invalidated since) does not invoke fetchFn.
C1_HitEconomy ==
    \A c \in CallIds :
        (calls[c].pc # "idle" /\ calls[c].inWin /\ ~calls[c].forced) => ~calls[c].fetched

\* C2: a getModels call whose fetch fails returns the array of its prior entry
\* when there is one and raises exactly when there is none, and the step
\* stores no entry: every entry left in the cache was there, unchanged.
C2_StaleOnError ==
    [][\A c \in CallIds :
          (calls[c].pc = "fetching" /\ calls'[c].pc \in {"returned", "raised"} /\ ~calls'[c].ok)
          => /\ (calls'[c].pc = "raised") <=> (calls[c].cached = None)
             /\ calls[c].cached # None =>
                   /\ calls'[c].ret = calls[c].cached[1].models
                   /\ heap'[calls'[c].ret] = heap[calls[c].cached[1].models]
             /\ \A u \in DOMAIN cache' : u \in DOMAIN cache /\ cache'[u] = cache[u]]_vars

\* a call has returned the array of an expired entry after its fetch failed
C2_Witness ==
    \E c \in CallIds : calls[c].pc = "returned" /\ calls[c].fetched /\ ~calls[c].ok

\* C3: no array a getModels call returned is the array a cache entry holds.
C3_NoAliasing ==
    \A c \in CallIds :
        calls[c].pc = "returned" => \A u \in DOMAIN cache : cache[u].models # calls[c].ret

\* C4: between steps the cache never holds more than MAX_CACHE_SIZE entries.
C4_CapacityBound == MapSize(cache) <= MAX_CACHE_SIZE

\* an insertion exceeded the bound and its cleanup ran in the same step
C4_Witness ==
    /\ lastCleanup.ran
    /\ MapSize(lastCleanup.before) > MAX_CACHE_SIZE
    /\ cache = lastCleanup.after

\* C5: a cleanup pass evicts the entries older than 5 x ttl, then, only while
\* the count is over the maximum, the oldest of the rest; the entry just
\* inserted and every entry newer than an evicted one stay.
C5_CleanupPolicy ==
    lastCleanup.ran =>
        LET before == lastCleanup.before
            after == lastCleanup.after
            stale == {u \in DOMAIN before : VeryStale(before[u], lastCleanup.at)}
            evicted == DOMAIN before \ DOMAIN after
            rest == Cardinality(DOMAIN before \ stale)
        IN  /\ stale \subseteq evicted
            /\ \A u \in DOMAIN after : u \in DOMAIN before /\ after[u] = before[u]
            /\ rest <= MAX_CACHE_SIZE => evicted = stale
            /\ rest > MAX_CACHE_SIZE => MapSize(after) = MAX_CACHE_SIZE
            /\ \A e \in evicted \ stale, k \in DOMAIN after :
                   before[e].timestamp <= before[k].timestamp
            /\ lastCleanup.key \notin stale => lastCleanup.key \in DOMAIN after

----------------------------------------------------------------------------
(* Claims about the retry controller *)

RECURSIVE Doubled(_, _)
Doubled(b, i) == IF i = 0 THEN b ELSE 2 * Doubled(b, i - 1)

RECURSIVE SumSeq(_)
SumSeq(q) == IF q = <<>> THEN 0 ELSE q[1] + SumSeq(Tail(q))

AllFailed(h) == \A i \in 1..Len(h) : ~h[i].ok

\* C6: with maxRetries >= 0 and an operation that fails every time, the
\* operation is invoked maxRetries + 1 times, the wait after failed attempt i
\* is baseDelay * 2^i for each i < maxRetries, and nothing is waited after the
\* last attempt; with (2, 500): 3 attempts, waits 500 and 1000, 1500 in all.
C6_RetrySchedule ==
    (rt.maxRetries >= 0 /\ AllFailed(rt.history)) =>
        /\ rt.pc = "waiting" =>
              /\ rt.attempt < rt.maxRetries
              /\ Len(rt.waits) = rt.attempt + 1
              /\ rt.waits[rt.attempt + 1] = Doubled(rt.baseDelay, rt.attempt)
              /\ rt.due = now + rt.waits[rt.attempt + 1]
        /\ rt.pc = "done" =>
              /\ rt.invoked = rt.maxRetries + 1
              /\ Len(rt.waits) = rt.maxRetries
              /\ \A i \in 1..Len(rt.waits) : rt.waits[i] = Doubled(rt.baseDelay, i - 1)
              /\ now - rt.started = SumSeq(rt.waits)
        /\ (rt.pc = "done" /\ rt.maxRetries = 2 /\ rt.baseDelay = 500) =>
              /\ rt.invoked = 3
              /\ rt.waits = <<500, 1000>>
              /\ now - rt.started = 1500

\* retryWithBackoff(op, 3, b) has failed four times and returned
C6_Witness ==
    /\ rt.pc = "done" /\ rt.maxRetries = 3 /\ ~rt.result.success
    /\ rt.invoked = 4 /\ Len(rt.waits) = 3

\* C7: retryWithBackoff never raises; it returns {success: true, result} of
\* the first attempt that succeeds, after exactly that many invocations, and
\* {success: false, error} with the last failure's message once
\* maxRetries + 1 attempts have failed, whatever was thrown.
C7_RetryWrapper ==
    /\ rt.pc # "raised"
    /\ (rt.pc = "done" /\ rt.maxRetries >= 0) =>
          LET h == rt.history
              n == Len(h)
          IN  /\ n >= 1 /\ n = rt.invoked /\ n = rt.attempt + 1
              /\ \A i \in 1..(n - 1) : ~h[i].ok
              /\ h[n].ok =>
                    /\ n <= rt.maxRetries + 1
                    /\ rt.result = [set |-> TRUE, success |-> TRUE,
                                    result |-> h[n].value, error |-> ""]
              /\ ~h[n].ok =>
                    /\ n = rt.maxRetries + 1
                    /\ rt.result.set /\ ~rt.result.success
                    /\ h[n].thrown.kind = "Error" => rt.result.error = h[n].thrown.message
                    /\ h[n].thrown = [kind |-> "number", message |-> "", value |-> 404]
                          => rt.result.error = "404"

\* a non-Error value was thrown and caught, then a later attempt succeeded
C7_Witness ==
    /\ rt.pc = "done" /\ rt.result.success /\ rt.invoked >= 2
    /\ \E i \in 1..Len(rt.history) : rt.history[i].thrown.kind = "number"

----------------------------------------------------------------------------
(* Claims about the validation hook *)

AttemptComplete(i) == i < Len(hk.obs) \/ rt.pc # "running"

\* C8: in a validation request whose first attempt saw a list without the
\* model, a later attempt that begins when the server's list contains the
\* model observes the model, and the request ends with status success.
C8_RetrySeesLoadedModel ==
    \A i \in 2..Len(hk.obs) :
        (~hk.obs[1].saw /\ hk.obs[i].had /\ AttemptComplete(i))
        => /\ hk.obs[i].saw
           /\ hk.pc = "returned" => hk.outcome.status = "success"

\* C9: a validation request that started without a cache entry for its base
\* URL and whose every HTTP fetch was refused ends with an error outcome of
\* category offline, severity critical, canRetry and autoFixAvailable.
C9_OfflineClassified ==
    (/\ hk.pc = "returned" /\ hk.kind = "valid"
     /\ ~hk.hadEntry
     /\ hk.fetches = {"refused"})
    => /\ hk.outcome.status = "error"
       /\ hk.outcome.errorCategory = "offline"
       /\ hk.outcome.severity = "critical"
       /\ hk.outcome.canRetry
       /\ hk.outcome.autoFixAvailable

C10_Safe ==
    hk.kind = "valid" =>
        /\ hk.pc # "raised"
        /\ rt.invoked <= HOOK_MAX_RETRIES + 1
        /\ hk.writes = (IF hk.pc = "returned" THEN 1 ELSE 0)
        /\ hk.pc = "returned" =>
              /\ hk.outcome.status \in {"success", "error"}
              /\ (hk.outcome.status = "success") <=> rt.result.success
              /\ rt.pc = "done"
              /\ calls[1].pc = "idle"

HookReturnedValid == hk.pc = "returned" /\ hk.kind = "valid"

\* C11: a written outcome has status success exactly when some attempt (of at
\* most 3) was given a list containing the model; availableModels is then the
\* list that attempt was given and contains the model; otherwise the status
\* is error.
C11_OutcomeSound ==
    HookReturnedValid =>
        LET h == rt.history
            n == Len(h)
            seen == \E i \in 1..Len(hk.obs) : hk.obs[i].saw
        IN  /\ Len(hk.obs) <= 3 /\ n = Len(hk.obs)
            /\ (hk.outcome.status = "success") <=> seen
            /\ seen => /\ h[n].ok /\ hk.obs[n].saw
                       /\ hk.outcome.availableModels = h[n].value
                       /\ ArrIncludes(hk.outcome.availableModels, hk.model)
            /\ ~seen => hk.outcome.status = "error"

\* a request succeeded on a retry
C11_Witness ==
    /\ HookReturnedValid /\ hk.outcome.status = "success"
    /\ Len(hk.obs) >= 2 /\ ~hk.obs[1].saw

----------------------------------------------------------------------------
(* Claims about categorizeError *)

OfflinePatterns == {<<"e", "c", "o", "n", "n", "r", "e", "f", "u", "s", "e", "d">>, <<"f", "e", "t", "c", "h", " ", "f", "a", "i", "l", "e", "d">>, <<"n", "e", "t", "w", "o", "r", "k">>}
TimeoutPatterns == {<<"t", "i", "m", "e", "o", "u", "t">>, <<"a", "b", "o", "r", "t", "e", "d">>}
NotFoundPatterns == {<<"4", "0", "4">>, <<"n", "o", "t", " ", "f", "o", "u", "n", "d">>}
PermissionPatterns == {<<"4", "0", "1">>, <<"4", "0", "3">>, <<"u", "n", "a", "u", "t", "h", "o", "r", "i", "z", "e", "d">>}

MatchesRow(str, pats) == \E pat \in pats : StrIncludes(ToLowerCase(str), pat)

\* C12: categorizeError answers every text; the type is that of the first row
\* matching the lower-cased text in the order offline, timeout, not_found,
\* permission, else unknown; and each type carries its fixed severity,
\* canRetry and autoFixAvailable.
C12_Classification ==
    fn.op = "categorizeError" =>
        LET str == fn.args[1]
            type == IF MatchesRow(str, OfflinePatterns) THEN "offline"
                    ELSE IF MatchesRow(str, TimeoutPatterns) THEN "timeout"
                    ELSE IF MatchesRow(str, NotFoundPatterns) THEN "not_found"
                    ELSE IF MatchesRow(str, PermissionPatterns) THEN "permission"
                    ELSE "unknown"
        IN  /\ fn.out.type = type
            /\ fn.out.type = "offline" =>
                   fn.out = Category("offline", "critical", TRUE, TRUE)
            /\ fn.out.type = "timeout" =>
                   fn.out = Category("timeout", "medium", TRUE, FALSE)
            /\ fn.out.type = "not_found" =>
                   fn.out = Category("not_found", "high", FALSE, FALSE)
            /\ fn.out.type = "permission" =>
                   fn.out = Category("permission", "high", FALSE, FALSE)
            /\ fn.out.type = "unknown" =>
                   fn.out = Category("unknown", "medium", TRUE, FALSE)

\* a text in capitals that matches the timeout row and then the offline row
C12_Witness ==
    /\ fn.op = "categorizeError"
    /\ fn.args[1] = <<"T", "i", "m", "e", "o", "u", "t", "E", "C", "O", "N", "N", "R", "E", "F", "U", "S", "E", "D">>
    /\ fn.out.type = "offline"

----------------------------------------------------------------------------
(* Claims about findSimilarModels *)

Ranked == fn.op = "findSimilarModels" /\ fn.returned
RankedIndexes == {fn.out.ranked[k].index : k \in 1..Len(fn.out.ranked)}

\* C13: findSimilarModels returns at most 5 entries, each a candidate of the
\* list it was given, with 0.1 < score <= 1.0, in non-increasing score order.
C13_RankBounds ==
    Ranked =>
        LET list == fn.args[2]
            r == fn.out.ranked
        IN  /\ Len(r) <= 5
            /\ \A k \in 1..Len(r) :
                   /\ r[k].index \in 1..Len(list) /\ r[k].model = list[r[k].index]
                   /\ 10 * r[k].similarity > Scale
                   /\ r[k].similarity <= Scale
            /\ \A k \in 1..(Len(r) - 1) : r[k].similarity >= r[k + 1].similarity

\* more than 5 candidates scored above 0.1 and 5 were returned
C13_Witness ==
    /\ Ranked /\ Len(fn.out.ranked) = 5
    /\ Cardinality({i \in 1..Len(fn.out.mapped) :
                        10 * fn.out.mapped[i].similarity > Scale}) > 5
    /\ fn.out.ranked[1].similarity > fn.out.ranked[5].similarity

\* the parts of the scoring rule, for lower-cased texts t and c with the
\* tokens tt and ct
RuleExact(t, c) == IF t = c THEN 1 ELSE 0
RuleFamily(tt, ct) == IF Len(tt) > 0 /\ Len(ct) > 0 /\ tt[1] = ct[1] THEN 1 ELSE 0
RuleSuffixes(t, c) ==
    Cardinality({i \in 1..Len(CommonSuffixes) :
                    StrIncludes(t, CommonSuffixes[i]) /\ StrIncludes(c, CommonSuffixes[i])})
RuleShared(tt, ct) ==
    Cardinality({j \in 1..Len(tt) : \E k \in 1..Len(ct) : ct[k] = tt[j]})
RuleLonger(tt, ct) == Max2(1, Max2(Len(tt), Len(ct)))

\* the rule for one scored item: 10 n times the score is
\* 10 n min(1, E + P + 0.2 S + 0.3 O), n being the larger token count
FollowsRule(target, item) ==
    LET t == ToLowerCase(target)
        c == ToLowerCase(item.model)
        tt == Tokens(t)
        ct == Tokens(c)
        n == RuleLonger(tt, ct)
        e == RuleExact(t, c)
        f == RuleFamily(tt, ct)
        u == RuleSuffixes(t, c)
        o == RuleShared(tt, ct)
        total == 10 * n * e + 5 * n * f + 2 * n * u + 3 * o
    IN  /\ 10 * n * item.similarity = Scale * Min2(10 * n, total)
        /\ item.reason = (IF e = 1 THEN <<"exact">> ELSE <<>>)
                         \o (IF f = 1 THEN <<"family">> ELSE <<>>)
                         \o [k \in 1..u |-> "suffix"]
                         \o (IF o > 0 THEN <<"tokens">> ELSE <<>>)

\* C14: the score of every candidate is min(1.0, E + P + 0.2 S + 0.3 O) with
\* E = 1 on equal strings, P = 0.5 on equal first tokens, S the number of
\* vocabulary items found in both strings and O the number of target tokens
\* found among the candidate's tokens over the larger token count, compared
\* in lower case; the reasons are in the order exact, family, suffixes, tokens.
C14_ScoringRule ==
    Ranked =>
        \A i \in 1..Len(fn.out.mapped) :
            /\ fn.out.mapped[i].model = fn.args[2][i]
            /\ FollowsRule(fn.args[1], fn.out.mapped[i])

\* a target in capitals with '_' and a space: its family, the suffix "3b"
\* inside "13b" and one token of three are shared, 0.5 + 0.2 + 0.1
C14_Witness ==
    /\ Ranked
    /\ fn.args[1] = <<"L", "l", "a", "m", "a", "_", "1", "3", "B", " ", "c", "h", "a", "t">>
    /\ fn.args[2] = <<<<"l", "l", "a", "m", "a", "-", "3", ".", "2", "-", "3", "b">>>>
    /\ 5 * fn.out.mapped[1].similarity = 4 * Scale
    /\ fn.out.mapped[1].reason = <<"family", "suffix", "tokens">>

\* candidate i shares with the target no first token, no vocabulary item
\* and no token
SharesNothing(i) ==
    LET t == ToLowerCase(fn.args[1])
        c == ToLowerCase(fn.args[2][i])
    IN  /\ RuleFamily(Tokens(t), Tokens(c)) = 0
        /\ RuleSuffixes(t, c) = 0
        /\ RuleShared(Tokens(t), Tokens(c)) = 0

SameFamily(i) ==
    RuleFamily(Tokens(ToLowerCase(fn.args[1])), Tokens(ToLowerCase(fn.args[2][i]))) = 1

\* the place of candidate i in the result; 0 when it is not returned
PlaceOf(i) ==
    IF i \in RankedIndexes
    THEN CHOOSE k \in 1..Len(fn.out.ranked) : fn.out.ranked[k].index = i
    ELSE 0

\* the two scenarios: rank("gpt-4", ["llama-3.2-3b-instruct"]) is empty, and
\* for "qwen/qwen3-30b-instruct" the candidate "qwen/qwen3-30b-chat" ranks
\* above "llama-3.2-3b"
Scenarios ==
    /\ (fn.args[1] = <<"g", "p", "t", "-", "4">> /\ fn.args[2] = <<<<"l", "l", "a", "m", "a", "-", "3", ".", "2", "-", "3", "b", "-", "i", "n", "s", "t", "r", "u", "c", "t">>>>) => fn.out.ranked = <<>>
    /\ (fn.args[1] = <<"q", "w", "e", "n", "/", "q", "w", "e", "n", "3", "-", "3", "0", "b", "-", "i", "n", "s", "t", "r", "u", "c", "t">> /\ fn.args[2] = <<<<"q", "w", "e", "n", "/", "q", "w", "e", "n", "3", "-", "3", "0", "b", "-", "c", "h", "a", "t">>, <<"l", "l", "a", "m", "a", "-", "3", ".", "2", "-", "3", "b">>>>)
          => PlaceOf(1) = 1 /\ PlaceOf(2) \in {0, 2}

\* C15 as stated: a candidate that shares nothing with the target is never
\* returned, and a candidate of the target's family is always returned, ahead
\* of every candidate that shares nothing.
C15_RankScenarios ==
    Ranked =>
        /\ Scenarios
        /\ \A i \in 1..Len(fn.args[2]) :
               /\ SharesNothing(i) => PlaceOf(i) = 0
               /\ SameFamily(i) => PlaceOf(i) > 0

\* C15 amended: a candidate that shares nothing with the target and is not
\* equal to it is never returned, and a candidate of the target's family is
\* returned unless 5 candidates that score at least as much fill the result.
C15_RankScenariosAmended ==
    Ranked =>
        /\ Scenarios
        /\ \A i \in 1..Len(fn.args[2]) :
               /\ (SharesNothing(i) /\ ToLowerCase(fn.args[2][i]) # ToLowerCase(fn.args[1]))
                     => PlaceOf(i) = 0
               /\ SameFamily(i) =>
                     \/ PlaceOf(i) > 0
                     \/ /\ Len(fn.out.ranked) = 5
                        /\ \A k \in 1..5 :
                              fn.out.ranked[k].similarity >= fn.out.mapped[i].similarity

\* six candidates of the target's family and one that shares nothing: five
\* are returned, one of the family is cut off
C15_Witness ==
    /\ Ranked /\ Len(fn.out.ranked) = 5
    /\ \E i, j \in 1..Len(fn.args[2]) :
          /\ SameFamily(i) /\ PlaceOf(i) = 0
          /\ SharesNothing(j) /\ PlaceOf(j) = 0

----------------------------------------------------------------------------
(* Claims about the reports of the hook *)

\* C16: in a success outcome cacheInfo describes the cache that getModels
\* used: valid exactly when its entry for the base URL is unexpired, age the
\* age of that entry, totalCacheEntries the number of its entries (at least 1
\* when the entry is there).
C16_CacheDiagnostics ==
    (HookReturnedValid /\ hk.outcome.status = "success") =>
        LET u == hk.url
            info == hk.outcome.cacheInfo
        IN  /\ info.valid <=> IsValid(u)
            /\ u \in DOMAIN cache => /\ info.age = now - cache[u].timestamp
                                     /\ info.totalCacheEntries >= 1
            /\ info.totalCacheEntries = MapSize(cache)

\* C17: in an error outcome the list reported as availableModels, and ranked
\* for the suggestions, was fetched from the server after the last failed
\* attempt, not taken from the cache; when that fetch fails the list and the
\* suggestions are empty.
C17_FreshListOnFailure ==
    (HookReturnedValid /\ hk.outcome.status = "error") =>
        /\ hk.availableFrom = "fetch"
        /\ hk.outcome.availableModels = <<>> => hk.outcome.similarModels = <<>>

Foreign(input) ==
    \/ input.type # "object"
    \/ input.model.type = "undefined"
    \/ input.model.idType # "string"
    \/ input.model.id = ""
    \/ input.provider.id # "llama.cpp"

\* C19: a call of chat.params with a foreign request returns at once, leaves
\* output.options unwritten and the cache as it was, starts no fetch and shows
\* no toast, and nothing of the kind happens after it returned.
C19_ForeignUntouched ==
    [][/\ \A input \in HookInputs :
             \A raw \in RawURLs(DEFAULT_LLAMA_CPP_URL) :
                 (Foreign(input) /\ HookRequest(input, raw)) =>
                     /\ hk'.pc = "returned"
                     /\ hk'.kind \notin {"", "valid"}
       /\ hk'.kind \notin {"", "valid"} =>
             /\ hk'.pc = "returned"
             /\ hk'.writes = 0
             /\ hk'.outcome = NoOutcome
             /\ hk'.fetches = {}
             /\ toasts' = <<>>
             /\ UNCHANGED <<now, cache, heap, calls, win>>]_vars

\* a request for another provider returned: nothing was written or shown, and
\* the full cache is as it was
C19_Witness ==
    /\ hk.pc = "returned"
    /\ hk.kind = "otherProvider"
    /\ hk.requests = MaxLiveRequests
    /\ hk.writes = 0
    /\ toasts = <<>>
    /\ MapSize(cache) = MAX_CACHE_SIZE

\* the health checks answered so far that were not ok
NotOkBefore(n) == \A k \in 1..n : ad.answers[k] # "ok"

\* C20: auto-detection probes 1234, then 8080, then 11434, one at a time. It
\* returns the base URL of the first port whose health check answered ok,
\* having sent nothing to a later port; it never has two probes outstanding;
\* it returns null only after all three checks answered not-ok.
C20_ProbeOrder ==
    /\ ad.probes = SubSeq(<<1234, 8080, 11434>>, 1, Len(ad.probes))
    /\ Cardinality(ad.outstanding) <= 1
    /\ ad.pc = "probing" => ad.outstanding = {ad.probes[Len(ad.probes)]}
    /\ (ad.pc = "returned" /\ ~ad.result.null) =>
          /\ ad.outstanding = {}
          /\ Len(ad.answers) = Len(ad.probes)
          /\ ad.answers[Len(ad.answers)] = "ok"
          /\ NotOkBefore(Len(ad.answers) - 1)
          /\ ad.result.url = URLChars(Len(ad.probes))
    /\ (ad.pc = "returned" /\ ad.result.null) =>
          /\ ad.outstanding = {}
          /\ ad.probes = <<1234, 8080, 11434>>
          /\ Len(ad.answers) = 3
          /\ NotOkBefore(3)

\* port 8080 is returned after 1234 answered with a 500, and 11434, where a
\* server is up as well, was never probed
C20_Witness ==
    /\ ad.pc = "returned"
    /\ ad.answers = <<"http500", "ok">>
    /\ ad.probes = <<1234, 8080>>
    /\ ad.result = [null |-> FALSE, url |-> URLChars(2)]
    /\ ad.ports[3] = "ok"

\* the ids the server listed that the hook added to the configuration
AddedKeys == DOMAIN cf.models \ DOMAIN cf.before

PlainBase(u) == ~EndsWith(u, Slash) /\ ~EndsWith(u, V1Suffix)

Normalized == fn.op = "normalizeBaseURL" /\ fn.returned

\* C22: for a base URL u without trailing slash and without /v1 suffix, the
\* forms u, u/, u/v1 and u/v1/ are all normalized to u, so they share the cache
\* key u and the request URL u/v1/models.
C22_FormsInterchangeable ==
    (/\ Normalized
     /\ PlainBase(fn.args[1])
     /\ fn.args[2] \in {<<>>, <<"/">>, <<"/", "v", "1">>, <<"/", "v", "1", "/">>}) =>
        /\ fn.out[1] = fn.args[1]
        /\ fn.out[2] = fn.args[1] \o <<"/", "v", "1", "/", "m", "o", "d", "e", "l", "s">>

\* http://127.0.0.1:1234/api/v1/ is normalized to http://127.0.0.1:1234/api
C22_Witness ==
    /\ Normalized
    /\ fn.args[2] = <<"/", "v", "1", "/">>
    /\ PlainBase(fn.args[1])
    /\ Len(fn.args[1]) = 25
    /\ fn.out[1] = fn.args[1]

\* C23 as stated: every reported age is >= 0, and for an entry not refreshed
\* between two successive getStats() calls the reported age strictly
\* increases.
C23_StatsAge ==
    [][GetStats =>
          /\ \A u \in DOMAIN stats'.last : stats'.last[u].age >= 0
          /\ \A u \in stats'.compared : stats'.last[u].age > stats.last[u].age]_vars

\* C23 amended: every reported age is >= 0, and for an entry not refreshed
\* between two successive getStats() calls the reported age grows by the time
\* that passed between the calls: it never decreases, and it increases
\* strictly when the clock has advanced.
C23_StatsAgeAmended ==
    [][GetStats =>
          /\ \A u \in DOMAIN stats'.last : stats'.last[u].age >= 0
          /\ \A u \in stats'.compared :
                /\ stats'.last[u].age - stats.last[u].age = now - stats.at
                /\ stats'.last[u].age >= stats.last[u].age
                /\ now > stats.at => stats'.last[u].age > stats.last[u].age]_vars

\* two reports 15 s apart of the entry of the default base URL, fetched
\* before the first report and not refreshed
C23_Witness ==
    /\ DEFAULT_LLAMA_CPP_URL \in stats.compared
    /\ stats.elapsed = DEFAULT_TTL
    /\ stats.last[DEFAULT_LLAMA_CPP_URL].age = 2 * DEFAULT_TTL

\* the entry of u is unexpired now
EntryUnexpired(u) ==
    u \in DOMAIN cache /\ now - cache[u].timestamp < cache[u].ttl

\* C24: a getModels call started while the entry of its baseURL is unexpired
\* returns the cached list and invokes no fetchFn, whatever other calls are
\* in flight.
C24_NoFetchWhileUnexpired ==
    [][\A c \in CallIds, u \in URLs :
          (GetModelsBegin(c, u) /\ EntryUnexpired(u)) =>
              /\ calls'[c].pc = "returned"
              /\ ~calls'[c].fetched
              /\ calls'[c].ret = cache[u].models]_vars

\* two calls were answered from the same unexpired entry and none fetched
C24_Witness ==
    /\ EntryUnexpired(DEFAULT_LLAMA_CPP_URL)
    /\ \A c \in 1..2 :
          /\ calls[c].pc = "returned"
          /\ ~calls[c].fetched
          /\ calls[c].ret = cache[DEFAULT_LLAMA_CPP_URL].models

\* C25: when fetchFn fails and the call holds a prior entry, the call returns
\* that entry's models; if the entry's age, as the call measured it when it
\* began, exceeds 5 x its ttl the key has no entry afterwards, and otherwise
\* the failure leaves the cache as it was.  A call that begins on a key with
\* no entry fetches, and when that fetch fails it raises: so the call that
\* follows an eviction raises when its fetch fails too.
C25_VeryStaleEvicted ==
    [][/\ (GetModelsFailed(1) /\ calls[1].cached # None) =>
              LET k == calls[1].cached[1]
                  age == calls[1].now - k.timestamp
              IN  /\ calls'[1].pc = "returned"
                  /\ calls'[1].ret = k.models
                  /\ (age > 5 * k.ttl) => calls[1].url \notin DOMAIN cache'
                  /\ (age <= 5 * k.ttl) => cache' = cache
       /\ \A u \in URLs :
              (GetModelsBegin(1, u) /\ u \notin DOMAIN cache) =>
                  calls'[1].pc = "fetching" /\ calls'[1].cached = None
       /\ (GetModelsFailed(1) /\ calls[1].cached = None) => calls'[1].pc = "raised"]_vars

\* a failed call has returned the list of an entry older than 5 x ttl, the
\* entry is gone, and it was not removed by invalidate or by forceRefresh
C25_Witness ==
    /\ calls[1].pc = "returned" /\ calls[1].fetched /\ ~calls[1].ok
    /\ calls[1].url \notin DOMAIN cache
    /\ win[calls[1].url].t >= 0
    /\ now - win[calls[1].url].t > 5 * win[calls[1].url].ttl

\* C26: forceRefresh invokes fetchFn even when an unexpired entry exists (the
\* call goes to its fetch, once); when the fetch succeeds the key's entry holds
\* the fetched list; when it fails the call raises and the key has no entry.
C26_ForceRefreshRefetches ==
    [][/\ \A u \in URLs :
              ForceRefreshBegin(1, u) => calls'[1].pc = "fetching" /\ calls'[1].fetched
       /\ \A l \in FetchLists :
              (GetModelsFetched(1, l) /\ calls[1].forced) =>
                  /\ calls'[1].pc = "returned"
                  /\ calls[1].url \in DOMAIN cache'
                  /\ heap'[cache'[calls[1].url].models] = l
       /\ (GetModelsFailed(1) /\ calls[1].forced) =>
              /\ calls'[1].pc = "raised"
              /\ calls[1].url \notin DOMAIN cache']_vars

\* the intervals of the event loop that are live
LiveIntervals == {t \in mon.timers : t.kind = "interval"}

\* C27: a startMonitoring for a model whose state is 'loading' leaves the
\* states, the registered intervals and the timers as they were; and at every
\* moment each model id has at most one live interval, and every live interval
\* is the one registered for its model id.
C27_MonitorGuarded ==
    /\ [](\A t \in LiveIntervals :
            /\ t.model \in DOMAIN mon.pollingIntervals
            /\ mon.pollingIntervals[t.model] = t.id)
    /\ [][\A id \in MonitoredIds :
            (StartMonitoring(id) /\ CurrentState(mon, id).status = "loading") =>
                /\ mon'.loadingStates = mon.loadingStates
                /\ mon'.pollingIntervals = mon.pollingIntervals
                /\ mon'.timers = mon.timers]_vars

\* startMonitoring has been called twice for one model, which is loading with
\* its first start time after the clock has moved, and the second call has
\* added no timer
C27_Witness ==
    /\ mon.started = 2
    /\ now > 0
    /\ \E id \in MonitoredIds :
          /\ CurrentState(mon, id).status = "loading"
          /\ CurrentState(mon, id).startTime = 0
          /\ Cardinality({t \in LiveIntervals : t.model = id}) = 1
          /\ Cardinality(mon.timers) = 2
          /\ \A other \in MonitoredIds \ {id} : other \notin DOMAIN mon.loadingStates

Loading(id) == CurrentState(mon, id).status = "loading"
LeftLoading(id) == CurrentState(mon, id).status \in {"loaded", "error"}
NoInterval(id) == \A t \in LiveIntervals : t.model # id

C29_DetectsLoaded ==
    [][\A t \in mon.timers :
          (PollTick(t) /\ Loading(t.model)) =>
              IF t.model \in mon.served
              THEN /\ CurrentState(mon, t.model)'.status = "loaded"
                   /\ CurrentState(mon, t.model)'.progress = Pct(100)
                   /\ NoInterval(t.model)'
              ELSE CurrentState(mon, t.model)'.progress <= Pct(90)]_vars

\* C30: under every interleaving of concurrent getModels calls, the timestamp
\* of the entry stored for a base URL never decreases: a step that leaves the
\* key with an entry leaves it with a timestamp no smaller than before.
C30_FreshnessMonotonic ==
    [][\A u \in URLs :
          (u \in DOMAIN cache /\ u \in DOMAIN cache') =>
              cache'[u].timestamp >= cache[u].timestamp]_vars

\* C31: a getModels call that was awaiting its fetch when its base URL was
\* invalidated does not, when its fetch succeeds, leave an entry for that base
\* URL with a timestamp earlier than the invalidation, and does not, when its
\* fetch fails, return the models array of the entry that was invalidated.
C31_InvalidationWins ==
    [][\A c \in CallIds :
          inval[c].at >= 0 =>
              /\ (\E l \in FetchLists : GetModelsFetched(c, l)) =>
                     ~(/\ calls[c].url \in DOMAIN cache'
                       /\ cache'[calls[c].url].timestamp < inval[c].at)
              /\ GetModelsFailed(c) =>
                     ~(/\ calls'[c].pc = "returned"
                       /\ inval[c].models # 0
                       /\ calls'[c].ret = inval[c].models)]_vars

\* C32: under every interleaving, a step in which a call's fetch fails removes
\* the entry of its base URL only if that entry's own age exceeds 5 x its ttl;
\* in particular it never removes an entry stored after the failing call began.
C32_FailureKeepsFresh ==
    [][\A c \in CallIds :
          (/\ GetModelsFailed(c)
           /\ calls[c].url \in DOMAIN cache
           /\ calls[c].url \notin DOMAIN cache') =>
              now - cache[calls[c].url].timestamp > 5 * cache[calls[c].url].ttl]_vars

\* C33: when a getLoadedModels call of the hook needed a refresh and the HTTP
\* request failed (refused connection, timeout or non-2xx status), the entry
\* the cache held for the base URL before the answer keeps its model list and
\* its timestamp.
C33_TransportFailureKeeps ==
    [][(/\ HookFetchDone
        /\ TransportError(server.mode) # ""
        /\ calls[1].url \in DOMAIN cache) =>
           /\ calls[1].url \in DOMAIN cache'
           /\ heap'[cache'[calls[1].url].models] = heap[cache[calls[1].url].models]
           /\ cache'[calls[1].url].timestamp = cache[calls[1].url].timestamp]_vars

\* C34: once the warm-up getModels of the config hook has completed with a
\* list for a base URL, an attempt of a chat.params validation for the same
\* normalised base URL that begins less than the TTL after the warm-up sends
\* no fetch.
C34_WarmupServes ==
    [][(/\ HookAttempt
        /\ cf.pc = "returned"
        /\ cf.warm.set
        /\ KeyOf(cf.baseURL) = hk.url
        /\ now - cf.warm.timestamp < DEFAULT_TTL) =>
           calls'[1].pc # "fetching"]_vars

Reported(outcome) ==
    Category(outcome.errorCategory, outcome.severity, outcome.canRetry,
             outcome.autoFixAvailable)

\* C36: an error outcome reports the category, severity, canRetry and
\* autoFixAvailable that the failure of any other model id absent from the
\* same list is given, and the category is unknown when every request of the
\* validation was answered normally by the server.
C36_NameIndependent ==
    hk.outcome.status = "error" =>
        /\ \A other \in ModelIds :
              ~ArrIncludes(hk.outcome.availableModels, other) =>
                  Categories[NotLoadedMessage(other)] = Reported(hk.outcome)
        /\ hk.fetches \subseteq {"ok"} => hk.outcome.errorCategory = "unknown"

\* C37: in every outcome with status 'error', availableModels does not hold
\* the requested model id and no entry of similarModels is the requested id.
C37_FailureOmitsRequested ==
    hk.outcome.status = "error" =>
        /\ ~ArrIncludes(hk.outcome.availableModels, hk.outcome.model)
        /\ \A k \in 1..Len(hk.outcome.similarModels) :
              hk.outcome.similarModels[k].model # hk.outcome.model

\* C38: a timeout that puts a model in 'error' fires at least LOADING_TIMEOUT
\* after the start time of the 'loading' state it ends, whatever calls of
\* startMonitoring, stopMonitoring and cleanup came before.
C38_TimeoutAfterFullSession ==
    [][\A t \in mon.timers :
          (TimeoutFired(t) /\ Loading(t.model)) =>
              now' - CurrentState(mon, t.model).startTime >= LOADING_TIMEOUT]_vars

\* C39: once the promise of the config hook has resolved, by enhanceConfig
\* returning or by the timer of the race, the config object is not changed
\* any more and nothing is put into the cache for that call.
C39_StableAfterReturn ==
    [][(race.pc = "resolved" /\ race'.pc = "resolved") =>
          /\ cf'.provider = cf.provider
          /\ cf'.models = cf.models
          /\ cf'.warm = cf.warm]_vars
====
